---- MODULE Spec2Model ----
(***************************************************************************)
(* Model of the SEO analysis engine of seo-inspector-mcp: the page         *)
(* analyzer analyzeHtml (src/analyzers/html-analyzer.js) and the keyword   *)
(* detector detectTargetKeywords (src/analyzers/keyword-analyzer.js).      *)
(*                                                                         *)
(* JavaScript strings are modelled as sequences of one-character strings,  *)
(* so that length, split, endsWith, slice and includes are computed as     *)
(* the code computes them.  A value that may be undefined (the result of   *)
(* cheerio's .attr()) is a sequence of at most one string: << >> is        *)
(* undefined and <<s>> is the string s.                                    *)
(*                                                                         *)
(* The parsed document (the cheerio handle $) is a record of what the      *)
(* selector queries of the code return for it.                             *)
(***************************************************************************)
EXTENDS Integers, Sequences, FiniteSets, TLC

VARIABLES
  html,             \* the document handed to the analyzer
  pageIdentifier,   \* the caller's label for it
  keywordAnalysis,  \* outcome of the last direct call of detectTargetKeywords
  analysis,         \* outcome of the last analyzeHtml call
  formatted,        \* outcome of formatAnalysisResult on that result
  batch,            \* a directory analysis request being handled
  sessions,         \* the session store of the console log server
  res,              \* the response to the last console log request
  now,              \* the clock of the console log server
  received,         \* every log entry the server stored, by session
  project,          \* an analyzeJsProject call being run
  lookup,           \* a normalizeWord call and its promise
  stem              \* a simpleStem call: its word and its result

analyzerVars == <<html, pageIdentifier, keywordAnalysis, analysis, formatted>>
batchVars == <<batch>>
logVars == <<sessions, res, now, received>>
projectVars == <<project>>
lookupVars == <<lookup>>
stemVars == <<stem>>

vars == <<analyzerVars, batchVars, logVars, projectVars, lookupVars, stemVars>>

\* the components that a specification does not run stay as they are
Idle == [pc |-> "idle"]
analyzerIdle ==
  /\ html = Idle
  /\ pageIdentifier = "page"
  /\ keywordAnalysis = Idle
  /\ analysis = Idle
  /\ formatted = Idle
batchIdle == batch = Idle
logIdle == sessions = Idle /\ res = Idle /\ now = 0 /\ received = Idle
projectIdle == project = Idle
lookupIdle == lookup = Idle
stemIdle == stem = Idle

----------------------------------------------------------------------------
(* JavaScript string primitives                                            *)

Min(a, b) == IF a < b THEN a ELSE b

Undefined == << >>
Some(s) == <<s>>

\* JavaScript truthiness of a string-or-undefined value
Truthy(o) == o # Undefined /\ o[1] # << >>

\* JavaScript truthiness of a string
NonEmpty(s) == s # << >>

WhitespaceChars == {" ", "\n", "\t"}

LowerLetters == <<"a", "b", "c", "d", "e", "f", "g", "h", "i", "j", "k", "l", "m",
                  "n", "o", "p", "q", "r", "s", "t", "u", "v", "w", "x", "y", "z">>

UpperLetters == <<"A", "B", "C", "D", "E", "F", "G", "H", "I", "J", "K", "L", "M",
                  "N", "O", "P", "Q", "R", "S", "T", "U", "V", "W", "X", "Y", "Z">>

Digits == {"0", "1", "2", "3", "4", "5", "6", "7", "8", "9"}

Range(s) == {s[i] : i \in DOMAIN s}

\* the regular expression class \w
WordChars == Range(LowerLetters) \cup Range(UpperLetters) \cup Digits \cup {"_"}

LowerChar(c) ==
  IF c \in Range(UpperLetters)
  THEN LowerLetters[CHOOSE i \in DOMAIN UpperLetters : UpperLetters[i] = c]
  ELSE c

\* String.prototype.toLowerCase
toLowerCase(s) == [i \in DOMAIN s |-> LowerChar(s[i])]

\* String.prototype.endsWith
endsWith(s, suffix) ==
  /\ Len(suffix) <= Len(s)
  /\ SubSeq(s, Len(s) - Len(suffix) + 1, Len(s)) = suffix

\* word.slice(0, -n)
sliceEnd(s, n) == SubSeq(s, 1, Len(s) - n)

\* String.prototype.includes
includes(s, sub) ==
  \E i \in 0..(Len(s) - Len(sub)) : SubSeq(s, i + 1, i + Len(sub)) = sub

\* index of the first character of s at or after i that is (isWs) or is not
\* (~isWs) whitespace; Len(s) + 1 if there is none
Scan(s, i, isWs) ==
  CHOOSE j \in i..(Len(s) + 1) :
    /\ j = Len(s) + 1 \/ (s[j] \in WhitespaceChars) = isWs
    /\ \A k \in i..(j - 1) : (s[k] \in WhitespaceChars) # isWs

\* s.split(/\s+/): the pieces between maximal runs of whitespace; a leading
\* or trailing run leaves an empty piece, and "" splits into [""]
RECURSIVE split(_)
split(s) ==
  LET i == Scan(s, 1, TRUE)
  IN IF i > Len(s) THEN <<s>>
     ELSE <<SubSeq(s, 1, i - 1)>> \o split(SubSeq(s, Scan(s, i, FALSE), Len(s)))

\* String.prototype.trim
RECURSIVE trimEnd(_)
trimEnd(s) ==
  IF s # << >> /\ s[Len(s)] \in WhitespaceChars THEN trimEnd(SubSeq(s, 1, Len(s) - 1))
  ELSE s

trim(s) == trimEnd(SubSeq(s, Scan(s, 1, FALSE), Len(s)))

IsWordOrSpace(c) == c \in WordChars \cup WhitespaceChars

\* word.replace(/[^\w\s]/g, '').trim()
clean(word) == trim(SelectSeq(word, IsWordOrSpace))

\* array.join(sep)
RECURSIVE join(_, _)
join(ss, sep) ==
  IF ss = << >> THEN << >>
  ELSE IF Len(ss) = 1 THEN ss[1]
  ELSE ss[1] \o sep \o join(Tail(ss), sep)

\* [...a, ...b, ...] over a sequence of sequences
RECURSIVE flatten(_)
flatten(ss) == IF ss = << >> THEN << >> ELSE ss[1] \o flatten(Tail(ss))

\* words.filter((w) => w === x).length
Occurrences(words, x) == Cardinality({i \in DOMAIN words : words[i] = x})

----------------------------------------------------------------------------
(* keyword-analyzer.js                                                     *)

\* simpleStem with a fault: -s is tried before -es
simpleStemPluralFirst(word0) ==
  LET word == toLowerCase(word0)
  IN IF endsWith(word, <<"i", "n", "g">>) THEN sliceEnd(word, 3)
     ELSE IF endsWith(word, <<"l", "y">>) THEN sliceEnd(word, 2)
     ELSE IF endsWith(word, <<"s">>) THEN sliceEnd(word, 1)
     ELSE IF endsWith(word, <<"e", "s">>) THEN sliceEnd(word, 2)
     ELSE IF endsWith(word, <<"e", "d">>) THEN sliceEnd(word, 2)
     ELSE IF endsWith(word, <<"e", "r">>) THEN sliceEnd(word, 2)
     ELSE IF endsWith(word, <<"m", "e", "n", "t">>) THEN sliceEnd(word, 4)
     ELSE IF endsWith(word, <<"t", "i", "o", "n">>) THEN sliceEnd(word, 4)
     ELSE word

simpleStem(word0) ==
  LET word == toLowerCase(word0)
  IN IF endsWith(word, <<"i", "n", "g">>) THEN sliceEnd(word, 3)
     ELSE IF endsWith(word, <<"l", "y">>) THEN sliceEnd(word, 2)
     ELSE IF endsWith(word, <<"e", "s">>) THEN sliceEnd(word, 2)
     ELSE IF endsWith(word, <<"s">>) THEN sliceEnd(word, 1)
     ELSE IF endsWith(word, <<"e", "d">>) THEN sliceEnd(word, 2)
     ELSE IF endsWith(word, <<"e", "r">>) THEN sliceEnd(word, 2)
     ELSE IF endsWith(word, <<"m", "e", "n", "t">>) THEN sliceEnd(word, 4)
     ELSE IF endsWith(word, <<"t", "i", "o", "n">>) THEN sliceEnd(word, 4)
     ELSE word

commonWords == {
    <<"a">>, <<"a", "n">>, <<"t", "h", "e">>, <<"a", "n", "d">>, <<"o", "r">>, <<"b", "u", "t">>,
    <<"i", "n">>, <<"o", "n">>, <<"a", "t">>, <<"t", "o">>, <<"f", "o", "r">>, <<"w", "i", "t", "h">>,
    <<"b", "y">>, <<"a", "b", "o", "u", "t">>, <<"a", "s">>, <<"o", "f">>, <<"f", "r", "o", "m">>, <<"i", "s">>,
    <<"a", "r", "e">>, <<"w", "a", "s">>, <<"w", "e", "r", "e">>, <<"b", "e">>, <<"b", "e", "e", "n">>, <<"b", "e", "i", "n", "g">>,
    <<"h", "a", "v", "e">>, <<"h", "a", "s">>, <<"h", "a", "d">>, <<"d", "o">>, <<"d", "o", "e", "s">>, <<"d", "i", "d">>,
    <<"w", "i", "l", "l">>, <<"w", "o", "u", "l", "d">>, <<"s", "h", "o", "u", "l", "d">>, <<"c", "o", "u", "l", "d">>, <<"c", "a", "n">>, <<"m", "a", "y">>,
    <<"m", "i", "g", "h", "t">>, <<"m", "u", "s", "t">>, <<"s", "h", "a", "l", "l">>, <<"t", "h", "i", "s">>, <<"t", "h", "a", "t">>, <<"t", "h", "e", "s", "e">>,
    <<"t", "h", "o", "s", "e">>, <<"i", "t">>, <<"t", "h", "e", "y">>, <<"t", "h", "e", "m">>, <<"t", "h", "e", "i", "r">>, <<"w", "e">>,
    <<"u", "s">>, <<"o", "u", "r">>, <<"y", "o", "u">>, <<"y", "o", "u", "r">>, <<"h", "e">>, <<"h", "i", "m">>,
    <<"h", "i", "s">>, <<"s", "h", "e">>, <<"h", "e", "r">>, <<"h", "e", "r", "s">>, <<"i">>, <<"m", "e">>,
    <<"m", "y">>, <<"m", "i", "n", "e">>, <<"w", "h", "o">>, <<"w", "h", "o", "m">>, <<"w", "h", "o", "s", "e">>, <<"w", "h", "i", "c", "h">>,
    <<"w", "h", "a", "t">>, <<"w", "h", "e", "n">>, <<"w", "h", "e", "r", "e">>, <<"w", "h", "y">>, <<"h", "o", "w">>, <<"a", "l", "l">>,
    <<"a", "n", "y">>, <<"b", "o", "t", "h">>, <<"e", "a", "c", "h">>, <<"f", "e", "w">>, <<"m", "o", "r", "e">>, <<"m", "o", "s", "t">>,
    <<"s", "o", "m", "e">>, <<"s", "u", "c", "h">>, <<"n", "o">>, <<"n", "o", "r">>, <<"n", "o", "t">>, <<"o", "n", "l", "y">>,
    <<"o", "w", "n">>, <<"s", "a", "m", "e">>, <<"s", "o">>, <<"t", "h", "a", "n">>, <<"t", "o", "o">>, <<"v", "e", "r", "y">>
  }

\* $('body').text(): the text of the h1 elements, the h2 elements and the
\* remaining body text, in document order, the elements one line each
bodyTextOf(doc) == join(doc.h1 \o doc.h2 \o <<doc.text>>, <<"\n">>)

\* bodyText.split(/\s+/) of $('body').text().toLowerCase()
bodyWordsOf(doc) == split(toLowerCase(bodyTextOf(doc)))

\* title ? title.toLowerCase().split(/\s+/) : []
titleWordsOf(title) == IF NonEmpty(title) THEN split(toLowerCase(title)) ELSE << >>

\* metaDescription ? metaDescription.toLowerCase().split(/\s+/) : []
metaWordsOf(metaDescription) ==
  IF Truthy(metaDescription) THEN split(toLowerCase(metaDescription[1])) ELSE << >>

\* $(sel).each((i, el) => xWords.push(...$(el).text().toLowerCase().split(/\s+/)))
headingWordsOf(texts) == flatten([i \in DOMAIN texts |-> split(toLowerCase(texts[i]))])

\* words.map((w) => simpleStem(w)).includes(stemmed)
StemsInclude(words, stemmed) == \E i \in DOMAIN words : simpleStem(words[i]) = stemmed

\* position of key k in the insertion-ordered entries of an object, 0 if absent
KeyIndex(entries, k) ==
  IF \E i \in DOMAIN entries : entries[i].key = k
  THEN CHOOSE i \in DOMAIN entries : entries[i].key = k
  ELSE 0

\* the single-word filter with the length test of the phrase loop
IsKeywordWordOverTwo(cleanWord) ==
  NonEmpty(cleanWord) /\ Len(cleanWord) > 2 /\ cleanWord \notin commonWords

\* the single-word filter of the counting loop
IsKeywordWord(cleanWord) ==
  NonEmpty(cleanWord) /\ Len(cleanWord) > 3 /\ cleanWord \notin commonWords

\* words.forEach(...): wordCounts and stemmedWordMap, as one list of entries
\* [key, count, original] in the insertion order of the keys
RECURSIVE wordCountsFrom(_, _, _)
wordCountsFrom(words, i, acc) ==
  IF i > Len(words) THEN acc
  ELSE
    LET cleanWord == clean(words[i])
    IN IF IsKeywordWord(cleanWord)
       THEN LET stemmed == simpleStem(cleanWord)
                k == KeyIndex(acc, stemmed)
                added == Append(acc, [key |-> stemmed, count |-> 1, original |-> cleanWord])
                bumped ==
                  [acc EXCEPT ![k] =
                     [key |-> stemmed,
                      count |-> @.count + 1,
                      original |->
                        IF Occurrences(words, cleanWord) > Occurrences(words, @.original)
                        THEN cleanWord ELSE @.original]]
            IN wordCountsFrom(words, i + 1, IF k = 0 THEN added ELSE bumped)
       ELSE wordCountsFrom(words, i + 1, acc)

wordCountsOf(words) == wordCountsFrom(words, 1, << >>)

\* the filter of the phrase loop on one half of a pair
IsPhraseWord(w) == NonEmpty(w) /\ Len(w) > 2 /\ w \notin commonWords

\* for (let i = 0; i < words.length - 1; i++): phraseCounts and
\* originalPhraseMap, as one list of entries [key, count, original, stems]
RECURSIVE phraseCountsFrom(_, _, _)
phraseCountsFrom(words, i, acc) ==
  IF i > Len(words) - 1 THEN acc
  ELSE
    LET word1 == clean(words[i])
        word2 == clean(words[i + 1])
    IN IF IsPhraseWord(word1) /\ IsPhraseWord(word2)
       THEN LET phrase == word1 \o <<" ">> \o word2
                normalizedPhrase == simpleStem(word1) \o <<" ">> \o simpleStem(word2)
                k == KeyIndex(acc, normalizedPhrase)
                added == Append(acc, [key |-> normalizedPhrase, count |-> 1,
                                      original |-> phrase])
                bumped == [acc EXCEPT ![k].count = @ + 1]
            IN phraseCountsFrom(words, i + 1, IF k = 0 THEN added ELSE bumped)
       ELSE phraseCountsFrom(words, i + 1, acc)

phraseCountsOf(words) == phraseCountsFrom(words, 1, << >>)

\* index of the first space of s, Len(s) + 1 if there is none
RECURSIVE SpaceAt(_, _)
SpaceAt(s, i) == IF i > Len(s) \/ s[i] = " " THEN i ELSE SpaceAt(s, i + 1)

\* normalizedPhrase.split(' ')
RECURSIVE splitOnSpace(_)
splitOnSpace(s) ==
  LET i == SpaceAt(s, 1)
  IN IF i > Len(s) THEN <<s>>
     ELSE <<SubSeq(s, 1, i - 1)>> \o splitOnSpace(SubSeq(s, i + 1, Len(s)))

\* ((count / total) * 100).toFixed(2), in hundredths of a percent; a zero
\* denominator gives the strings "Infinity" or "NaN", modelled as -1
densityOf(count, total) ==
  IF total = 0 THEN -1 ELSE (2 * 10000 * count + total) \div (2 * total)

\* one element of scoredWords without the boost for the important words
scoredWordPlacementOnly(entry, totalWords, titleWords, metaWords, h1Words, h2Words) ==
  LET stemmed == entry.key
      inTitle == \E i \in DOMAIN titleWords : simpleStem(titleWords[i]) = stemmed
      inMetaDescription == \E i \in DOMAIN metaWords : simpleStem(metaWords[i]) = stemmed
      inH1 == \E i \in DOMAIN h1Words : simpleStem(h1Words[i]) = stemmed
      inH2 == \E i \in DOMAIN h2Words : simpleStem(h2Words[i]) = stemmed
  IN [word |-> entry.original,
      score |-> entry.count
                + (IF inTitle THEN 10 ELSE 0)
                + (IF inMetaDescription THEN 5 ELSE 0)
                + (IF inH1 THEN 8 ELSE 0)
                + (IF inH2 THEN 6 ELSE 0),
      density |-> densityOf(entry.count, totalWords),
      inTitle |-> inTitle,
      inMetaDescription |-> inMetaDescription,
      inH1 |-> inH1,
      inH2 |-> inH2]

\* one element of scoredWords
scoredWord(entry, totalWords, titleWords, metaWords, h1Words, h2Words) ==
  LET stemmed == entry.key
      importantWords == titleWords \o metaWords \o h1Words \o h2Words
      inTitle == StemsInclude(titleWords, stemmed)
      inMetaDescription == StemsInclude(metaWords, stemmed)
      inH1 == StemsInclude(h1Words, stemmed)
      inH2 == StemsInclude(h2Words, stemmed)
  IN [word |-> entry.original,
      score |-> entry.count
                + (IF StemsInclude(importantWords, stemmed) THEN 10 ELSE 0)
                + (IF inTitle THEN 10 ELSE 0)
                + (IF inMetaDescription THEN 5 ELSE 0)
                + (IF inH1 THEN 8 ELSE 0)
                + (IF inH2 THEN 6 ELSE 0),
      density |-> densityOf(entry.count, totalWords),
      inTitle |-> inTitle,
      inMetaDescription |-> inMetaDescription,
      inH1 |-> inH1,
      inH2 |-> inH2]

\* some instead of every
SomeIncluded(phraseWords, text) ==
  \E i \in DOMAIN phraseWords : includes(text, phraseWords[i])

\* phraseWords.every((pw) => text.includes(pw))
EveryIncluded(phraseWords, text) ==
  \A i \in DOMAIN phraseWords : includes(text, phraseWords[i])

\* one element of scoredPhrases.  score is kept in halves (scoreHalves is
\* twice the JavaScript number, which is count * 1.5 plus the boosts).  The
\* flags inTitle and inMetaDescription are the truthiness of the JavaScript
\* values (which are "" or undefined when title or description is missing).
scoredPhrase(entry, totalWords, doc, title, metaDescription) ==
  LET phraseWords == splitOnSpace(entry.key)
      inTitle == NonEmpty(title) /\ EveryIncluded(phraseWords, toLowerCase(title))
      inMetaDescription ==
        Truthy(metaDescription)
        /\ EveryIncluded(phraseWords, toLowerCase(metaDescription[1]))
      inH1 == \E i \in DOMAIN doc.h1 : EveryIncluded(phraseWords, toLowerCase(doc.h1[i]))
      inH2 == \E i \in DOMAIN doc.h2 : EveryIncluded(phraseWords, toLowerCase(doc.h2[i]))
  IN [phrase |-> entry.original,
      scoreHalves |-> 3 * entry.count
                      + (IF inTitle THEN 30 ELSE 0)
                      + (IF inMetaDescription THEN 20 ELSE 0)
                      + (IF inH1 THEN 24 ELSE 0)
                      + (IF inH2 THEN 16 ELSE 0),
      density |-> densityOf(entry.count, totalWords - 1),
      inTitle |-> inTitle,
      inMetaDescription |-> inMetaDescription,
      inH1 |-> inH1,
      inH2 |-> inH2]

\* the words that the counting loop keeps, counted instead of all of them
totalWordsKept(words) ==
  Cardinality({i \in DOMAIN words : IsKeywordWord(clean(words[i]))})

\* const totalWords = words.length
totalWordsOf(words) == Len(words)

\* Object.keys(wordCounts).map(...)
scoredWordsOf(doc, title, metaDescription) ==
  LET words == bodyWordsOf(doc)
      counts == wordCountsOf(words)
      titleWords == titleWordsOf(title)
      metaWords == metaWordsOf(metaDescription)
      h1Words == headingWordsOf(doc.h1)
      h2Words == headingWordsOf(doc.h2)
  IN [i \in DOMAIN counts |->
        scoredWord(counts[i], totalWordsOf(words), titleWords, metaWords, h1Words, h2Words)]

\* Object.keys(phraseCounts).map(...)
scoredPhrasesOf(doc, title, metaDescription) ==
  LET words == bodyWordsOf(doc)
      counts == phraseCountsOf(words)
  IN [i \in DOMAIN counts |->
        scoredPhrase(counts[i], totalWordsOf(words), doc, title, metaDescription)]

\* Array.prototype.sort with (a, b) => b.score - a.score: a stable sort, an
\* element goes behind the elements that do not compare after it
RECURSIVE sortWordsFrom(_, _, _)
sortWordsFrom(s, i, acc) ==
  IF i > Len(s) THEN acc
  ELSE LET n == Cardinality({j \in DOMAIN acc : acc[j].score >= s[i].score})
       IN sortWordsFrom(s, i + 1,
            SubSeq(acc, 1, n) \o <<s[i]>> \o SubSeq(acc, n + 1, Len(acc)))

sortWords(s) == sortWordsFrom(s, 1, << >>)

RECURSIVE sortPhrasesFrom(_, _, _)
sortPhrasesFrom(s, i, acc) ==
  IF i > Len(s) THEN acc
  ELSE LET n == Cardinality({j \in DOMAIN acc : acc[j].scoreHalves >= s[i].scoreHalves})
       IN sortPhrasesFrom(s, i + 1,
            SubSeq(acc, 1, n) \o <<s[i]>> \o SubSeq(acc, n + 1, Len(acc)))

sortPhrases(s) == sortPhrasesFrom(s, 1, << >>)

\* array.slice(from, to), from and to counted from 0
slice(s, from, to) == SubSeq(s, from + 1, Min(to, Len(s)))

\* the first 5 candidates taken before the sort instead of after it
topWordsSlicedFirst(scoredWords) == sortWords(slice(scoredWords, 0, 5))

\* scoredWords.sort(...).slice(0, 5)
topWordsOf(scoredWords) == slice(sortWords(scoredWords), 0, 5)

\* scoredPhrases.sort(...).slice(0, 5)
topPhrasesOf(scoredPhrases) == slice(sortPhrases(scoredPhrases), 0, 5)

\* missingFromOf with a fault: the H2 test repeats the H1 flag
missingFromOfRepeatedFlag(p) ==
  (IF ~p.inTitle THEN <<"title">> ELSE << >>)
  \o (IF ~p.inMetaDescription THEN <<"meta description">> ELSE << >>)
  \o (IF ~p.inH1 THEN <<"H1 heading">> ELSE << >>)
  \o (IF ~p.inH1 THEN <<"H2 headings">> ELSE << >>)

\* placementAnalysis.missingFrom after the four pushes
missingFromOf(p) ==
  (IF ~p.inTitle THEN <<"title">> ELSE << >>)
  \o (IF ~p.inMetaDescription THEN <<"meta description">> ELSE << >>)
  \o (IF ~p.inH1 THEN <<"H1 heading">> ELSE << >>)
  \o (IF ~p.inH2 THEN <<"H2 headings">> ELSE << >>)

Pending == [status |-> "pending"]
Threw(e) == [status |-> "threw", error |-> e]
Returned(v) == [status |-> "returned", value |-> v]

\* detectTargetKeywords(html, title, metaDescription).  With no phrase,
\* placementAnalysis is null and reading placementAnalysis.inTitle throws.
detectTargetKeywords(doc, title, metaDescription) ==
  LET topWords == topWordsOf(scoredWordsOf(doc, title, metaDescription))
      topPhrases == topPhrasesOf(scoredPhrasesOf(doc, title, metaDescription))
  IN IF topPhrases = << >> THEN Threw("TypeError")
     ELSE Returned(
       [singleWords |-> topWords,
        phrases |-> topPhrases,
        placementAnalysis |->
          [primaryPhrase |-> topPhrases[1].phrase,
           inTitle |-> topPhrases[1].inTitle,
           inMetaDescription |-> topPhrases[1].inMetaDescription,
           inH1 |-> topPhrases[1].inH1,
           inH2 |-> topPhrases[1].inH2,
           missingFrom |-> missingFromOf(topPhrases[1])],
        keywordSummary |->
          [primaryPhrase |-> topPhrases[1].phrase,
           secondaryPhrases |->
             LET s == slice(topPhrases, 1, 3) IN [i \in DOMAIN s |-> s[i].phrase],
           topSingleWords |->
             LET s == slice(topWords, 0, 3) IN [i \in DOMAIN s |-> s[i].word]]])

----------------------------------------------------------------------------
(* html-analyzer.js                                                        *)

\* an element of issues; the message is its fixed text with the number and
\* the string interpolated into it (0 and << >> when there is none)
Issue(severity, text, n, arg, impact, area) ==
  [severity |-> severity, message |-> [text |-> text, n |-> n, arg |-> arg],
   impact |-> impact, area |-> area]

\* an element of recommendations; implementation is likewise a fixed text
\* with the string interpolated into it
Recommendation(text, impact, reason, implementation, arg) ==
  [text |-> text, impact |-> impact, reason |-> reason,
   implementation |-> [text |-> implementation, arg |-> arg]]

Emit(issues, recommendations) == [issues |-> issues, recommendations |-> recommendations]

Nothing == Emit(<< >>, << >>)

\* $(sel).attr(name): the attribute of the first matched element
firstAttr(attrs) == IF attrs = << >> THEN Undefined ELSE attrs[1]

robotsContentOf(doc) == firstAttr(doc.robots)

\* robotsContent && robotsContent.includes('noindex'), as its truthiness
hasNoIndexOf(doc) ==
  Truthy(robotsContentOf(doc)) /\ includes(robotsContentOf(doc)[1], <<"n", "o", "i", "n", "d", "e", "x">>)

\* robotsContent && robotsContent.includes('nofollow'), as its truthiness
hasNoFollowOf(doc) ==
  Truthy(robotsContentOf(doc)) /\ includes(robotsContentOf(doc)[1], <<"n", "o", "f", "o", "l", "l", "o", "w">>)

hasReactRootOf(doc) == doc.rootElements > 0 \/ doc.appElements > 0 \/ doc.reactrootElements > 0

\* the script elements whose src includes 'react', 'bundle' or 'chunk'
IsReactScript(srcAttr) ==
  LET src == IF Truthy(srcAttr) THEN srcAttr[1] ELSE << >>
  IN includes(src, <<"r", "e", "a", "c", "t">>) \/ includes(src, <<"b", "u", "n", "d", "l", "e">>) \/ includes(src, <<"c", "h", "u", "n", "k">>)

hasReactScriptsOf(doc) == \E i \in DOMAIN doc.scripts : IsReactScript(doc.scripts[i])

isReactAppOf(doc) == hasReactRootOf(doc) \/ (doc.emptyDivs > 0 /\ hasReactScriptsOf(doc))

confidenceScoreOf(doc) == IF isReactAppOf(doc) THEN 40 ELSE 100

\* if (isReactApp) { ... }: the client-side rendering warning
reactCheck(doc) ==
  IF isReactAppOf(doc)
  THEN Emit(
    <<Issue("critical",
            "WARNING: This is a client-side rendered React app - this analysis is INCOMPLETE",
            0, << >>, 100, "Analysis Limitations"),
      Issue("critical", "Client-side rendered React apps hide content from this analyzer",
            0, << >>, 95, "Framework")>>,
    <<Recommendation("Switch to server-side rendering for better SEO", 95,
                     "This analysis only sees your initial HTML, not the content rendered by React",
                     "Migrate to Next.js, Gatsby, or implement server-side rendering in your current setup",
                     << >>),
      Recommendation("For accurate analysis, view your page source and analyze what search engines actually see",
                     90, "What you see in the browser is different from what search engines see",
                     "Right-click your page and select View Page Source to see what search engines see",
                     << >>)>>)
  ELSE Nothing

\* title.substring(0, 57)
substring57(s) == SubSeq(s, 1, Min(57, Len(s)))

\* the title check with the long-title test taken from 60 characters on
titleCheckFromSixty(doc) ==
  LET title == doc.title
  IN IF ~NonEmpty(title)
     THEN Emit(<<Issue("high", "Missing page title", 0, << >>, 90, "Meta Tags")>>, << >>)
     ELSE IF Len(title) < 30
     THEN Emit(<<Issue("medium", "Title is too short (n chars) - aim for 50-60 characters",
                       Len(title), << >>, 75, "Meta Tags")>>, << >>)
     ELSE IF Len(title) >= 60
     THEN Emit(<<Issue("medium",
                       "Title length (n chars) exceeds recommended maximum of 60 characters",
                       Len(title), << >>, 70, "Meta Tags")>>, << >>)
     ELSE Nothing

\* Check title
titleCheck(doc) ==
  LET title == doc.title
  IN IF ~NonEmpty(title)
     THEN Emit(<<Issue("high", "Missing page title", 0, << >>, 90, "Meta Tags")>>,
               <<Recommendation("Add a descriptive page title", 90,
                                "Title tags are a critical ranking factor and appear in search results",
                                "<title>Your Primary Keyword - Your Brand Name</title>", << >>)>>)
     ELSE IF Len(title) < 30
     THEN Emit(<<Issue("medium", "Title is too short (n chars) - aim for 50-60 characters",
                       Len(title), << >>, 75, "Meta Tags")>>,
               <<Recommendation("Expand your title to be more descriptive", 75,
                                "Short titles miss opportunities to include keywords and attract clicks",
                                "<title>arg | Add More Keywords and Brand</title>", title)>>)
     ELSE IF Len(title) > 60
     THEN Emit(<<Issue("medium",
                       "Title length (n chars) exceeds recommended maximum of 60 characters",
                       Len(title), << >>, 70, "Meta Tags")>>,
               <<Recommendation("Shorten title to under 60 characters", 70,
                                "Long titles get truncated in search results",
                                "<title>arg...</title>", substring57(title))>>)
     ELSE Nothing

\* Check meta description
metaDescriptionCheck(doc) ==
  LET metaDescription == doc.metaDescription
  IN IF ~Truthy(metaDescription)
     THEN Emit(<<Issue("high", "Missing meta description", 0, << >>, 80, "Meta Tags")>>,
               <<Recommendation("Add a descriptive meta description", 80,
                                "Meta descriptions appear in search results and affect click-through rates",
                                "<meta name=description content=...>", << >>)>>)
     ELSE IF Len(metaDescription[1]) < 50 \/ Len(metaDescription[1]) > 160
     THEN Emit(<<Issue("medium",
                       "Meta description length (n chars) outside recommended range (50-160)",
                       Len(metaDescription[1]), << >>, 60, "Meta Tags")>>,
               <<Recommendation("Adjust meta description to be between 50-160 characters", 60,
                                "Descriptions outside this range may be truncated or considered thin content",
                                IF Len(metaDescription[1]) < 50
                                THEN "Expand your meta description to be more descriptive and include target keywords"
                                ELSE "Shorten your meta description to ensure it displays properly in search results",
                                << >>)>>)
     ELSE Nothing

\* Check robots meta tag: if (hasNoIndex) { ... }
noIndexCheck(doc) ==
  IF hasNoIndexOf(doc)
  THEN Emit(<<Issue("critical",
                    "Page has noindex directive - it will not appear in search results",
                    0, << >>, 100, "Indexability")>>,
            <<Recommendation("Remove noindex directive if you want this page to be indexed", 100,
                             "The noindex directive explicitly tells search engines not to include this page in search results",
                             "Change to <meta name=robots content=index,follow> or remove the tag entirely",
                             << >>)>>)
  ELSE Nothing

\* if (hasNoFollow) { ... }
noFollowCheck(doc) ==
  IF hasNoFollowOf(doc)
  THEN Emit(<<Issue("high",
                    "Page has nofollow directive - search engines will not follow links",
                    0, << >>, 85, "Indexability")>>,
            <<Recommendation("Remove nofollow directive if you want link equity to flow through this page",
                             85,
                             "The nofollow directive prevents search engines from following links on this page",
                             "Change to <meta name=robots content=index,follow> or remove the tag entirely",
                             << >>)>>)
  ELSE Nothing

\* Check headings
h1Check(doc) ==
  LET h1Count == Len(doc.h1)
  IN IF h1Count = 0
     THEN Emit(<<Issue("high", "No H1 heading found", 0, << >>, 85, "Content Structure")>>,
               <<Recommendation("Add an H1 heading to your page", 85,
                                "H1 headings help search engines understand the main topic of your page",
                                "<h1>Your Primary Keyword/Topic</h1>", << >>)>>)
     ELSE IF h1Count > 1
     THEN Emit(<<Issue("medium", "Multiple H1 headings found (n)", h1Count, << >>, 65,
                       "Content Structure")>>,
               <<Recommendation("Use only one H1 heading per page", 65,
                                "Multiple H1s can confuse search engines about the main topic of your page",
                                "Keep the most important H1 and change others to H2", << >>)>>)
     ELSE Nothing

\* Check for heading hierarchy
headingHierarchyCheck(doc) ==
  IF Len(doc.h1) = 0 /\ Len(doc.h2) > 0
  THEN Emit(<<Issue("medium", "H2 headings found without an H1 heading", 0, << >>, 70,
                    "Content Structure")>>,
            <<Recommendation("Add an H1 heading before using H2 headings", 70,
                             "Proper heading hierarchy helps search engines understand your content structure",
                             "Add an H1 heading at the top of your content", << >>)>>)
  ELSE Nothing

\* title || 'Your Title'
titleOr(doc, default) == IF NonEmpty(doc.title) THEN doc.title ELSE default

\* Check for social media tags: titles
socialTitleCheck(doc) ==
  IF ~Truthy(doc.ogTitle) /\ ~Truthy(doc.twitterTitle)
  THEN Emit(<<Issue("medium", "Missing social media title tags (Open Graph and Twitter)",
                    0, << >>, 60, "Social Sharing")>>,
            <<Recommendation("Add Open Graph and Twitter Card meta tags", 60,
                             "Social media tags improve how your content appears when shared on social platforms",
                             "<meta property=og:title content=arg> <meta name=twitter:title content=arg>",
                             titleOr(doc, <<"Y", "o", "u", "r", " ", "T", "i", "t", "l", "e">>))>>)
  ELSE Nothing

\* Check for social media tags: images
socialImageCheck(doc) ==
  IF ~Truthy(doc.ogImage) /\ ~Truthy(doc.twitterImage)
  THEN Emit(<<Issue("medium", "Missing social media image tags", 0, << >>, 55,
                    "Social Sharing")>>,
            <<Recommendation("Add social media image tags", 55,
                             "Images make your content more appealing when shared on social media",
                             "<meta property=og:image content=...> <meta name=twitter:image content=...>",
                             << >>)>>)
  ELSE Nothing

\* the alt test without the test of the role attribute
lacksAltAttribute(img) == ~Truthy(img.alt)

\* !alt && !$(img).attr('role')
lacksAlt(img) == ~Truthy(img.alt) /\ ~Truthy(img.role)

\* $(img).attr('src') || 'unknown image'
srcOf(img) == IF Truthy(img.src) THEN img.src[1] ELSE <<"u", "n", "k", "n", "o", "w", "n", " ", "i", "m", "a", "g", "e">>

\* imagesWithoutAlt after $('img').each(...)
imagesWithoutAltOf(doc) ==
  LET missing == SelectSeq(doc.imgs, lacksAlt)
  IN [i \in DOMAIN missing |-> srcOf(missing[i])]

\* Check images
imageCheck(doc) ==
  LET imagesWithoutAlt == imagesWithoutAltOf(doc)
  IN Emit([i \in DOMAIN imagesWithoutAlt |->
             Issue("medium", "Image missing alt text: arg", 0, imagesWithoutAlt[i], 60,
                   "Accessibility")],
          IF Len(imagesWithoutAlt) > 0
          THEN <<Recommendation("Add alt text to all images", 60,
                                "Alt text improves accessibility and helps search engines understand image content",
                                "<img src=image.jpg alt=...>", << >>)>>
          ELSE << >>)

\* the JSON-LD script texts of the documents that JSON.parse accepts
WellFormedJson ==
  {"{\"@context\":\"https://schema.org\",\"@type\":\"WebPage\"}", "{\"name\":\"x\"}"}

\* JSON.parse($(script).html()) returns or throws SyntaxError
jsonParses(text) == text \in WellFormedJson

\* every block recorded, the blocks that do not parse included
schemasWithFailures(doc) == doc.jsonLd

\* schemas after $('script[type="application/ld+json"]').each(...)
schemasOf(doc) == SelectSeq(doc.jsonLd, jsonParses)

jsonThrows(text) == ~jsonParses(text)

\* Check for schema markup
schemaCheck(doc) ==
  LET invalid == SelectSeq(doc.jsonLd, jsonThrows)
      schemas == schemasOf(doc)
  IN Emit([i \in DOMAIN invalid |->
             Issue("high", "Invalid JSON-LD schema", 0, << >>, 70, "Structured Data")]
          \o (IF Len(schemas) = 0
              THEN <<Issue("medium", "No structured data (schema.org) found", 0, << >>, 65,
                           "Structured Data")>>
              ELSE << >>),
          IF Len(schemas) = 0
          THEN <<Recommendation("Add structured data using JSON-LD", 65,
                                "Structured data helps search engines understand your content and can enable rich results",
                                "<script type=application/ld+json>{... name: arg ...}</script>",
                                titleOr(doc, <<"P", "a", "g", "e", " ", "t", "i", "t", "l", "e">>))>>
          ELSE << >>)

\* the parsed JSON-LD objects in which both schema['@context'] and
\* schema['@type'] are truthy
HasContextAndType(text) == text = "{\"@context\":\"https://schema.org\",\"@type\":\"WebPage\"}"

\* Schema validation of the analyzeHtml of the server: the issues that its
\* loop over the JSON-LD blocks pushes (these issues have no impact or area)
serverSchemaIssues(doc) ==
  LET issueOf(text) ==
        IF ~jsonParses(text)
        THEN <<[severity |-> "high", message |-> "Invalid JSON-LD schema"]>>
        ELSE IF ~HasContextAndType(text)
        THEN <<[severity |-> "high", message |-> "Invalid schema: missing @context or @type"]>>
        ELSE << >>
  IN flatten([i \in DOMAIN doc.jsonLd |-> issueOf(doc.jsonLd[i])])

\* Check for canonical URL
canonicalCheck(doc) ==
  IF ~Truthy(doc.canonicalUrl)
  THEN Emit(<<Issue("medium", "No canonical URL specified", 0, << >>, 60, "Duplicate Content")>>,
            <<Recommendation("Add a canonical URL tag", 60,
                             "Canonical URLs help prevent duplicate content issues",
                             "<link rel=canonical href=https://yourdomain.com/current-page/>",
                             << >>)>>)
  ELSE Nothing

hasViewportOf(doc) == doc.viewports > 0

\* Check for mobile viewport
viewportCheck(doc) ==
  IF ~hasViewportOf(doc)
  THEN Emit(<<Issue("high", "Missing viewport meta tag for mobile responsiveness", 0, << >>,
                    80, "Mobile Optimization")>>,
            <<Recommendation("Add a viewport meta tag", 80,
                             "Mobile-friendly pages rank better in mobile search results",
                             "<meta name=viewport content=width=device-width, initial-scale=1>",
                             << >>)>>)
  ELSE Nothing

\* React-specific recommendations
reactRecommendations(doc) ==
  IF isReactAppOf(doc)
  THEN Emit(<< >>,
    <<Recommendation("Use React Helmet to manage meta tags", 85,
                     "React Helmet allows you to manage all your meta tags within your React components",
                     "npm install react-helmet, then import and use in your components", << >>),
      Recommendation("Consider pre-rendering or server-side rendering", 90,
                     "Client-side rendered React apps often perform poorly for SEO",
                     "Migrate to Next.js or use a pre-rendering service like Prerender.io", << >>),
      Recommendation("IMPORTANT: This analysis is incomplete due to client-side rendering", 100,
                     "This tool can only analyze the initial HTML, not the content rendered by React",
                     "For a complete analysis, you need to analyze the rendered HTML that search engines see",
                     << >>)>>)
  ELSE Nothing

\* the checks in the order in which analyzeHtml runs them
checksOf(doc) ==
  <<reactCheck(doc), titleCheck(doc), metaDescriptionCheck(doc), noIndexCheck(doc),
    noFollowCheck(doc), h1Check(doc), headingHierarchyCheck(doc), socialTitleCheck(doc),
    socialImageCheck(doc), imageCheck(doc), schemaCheck(doc), canonicalCheck(doc),
    viewportCheck(doc), reactRecommendations(doc)>>

\* the issues array before it is sorted: every push, in order
emittedIssues(doc) ==
  LET checks == checksOf(doc) IN flatten([i \in DOMAIN checks |-> checks[i].issues])

\* the recommendations array before it is sorted
emittedRecommendations(doc) ==
  LET checks == checksOf(doc) IN flatten([i \in DOMAIN checks |-> checks[i].recommendations])

\* Array.prototype.sort with (a, b) => b.impact - a.impact: a stable sort
RECURSIVE sortByImpactFrom(_, _, _)
sortByImpactFrom(s, i, acc) ==
  IF i > Len(s) THEN acc
  ELSE LET n == Cardinality({j \in DOMAIN acc : acc[j].impact >= s[i].impact})
       IN sortByImpactFrom(s, i + 1,
            SubSeq(acc, 1, n) \o <<s[i]>> \o SubSeq(acc, n + 1, Len(acc)))

\* a sort that is not stable: an element goes before the elements of its impact
RECURSIVE sortByImpactTiesReversedFrom(_, _, _)
sortByImpactTiesReversedFrom(s, i, acc) ==
  IF i > Len(s) THEN acc
  ELSE LET n == Cardinality({j \in DOMAIN acc : acc[j].impact > s[i].impact})
       IN sortByImpactTiesReversedFrom(s, i + 1,
            SubSeq(acc, 1, n) \o <<s[i]>> \o SubSeq(acc, n + 1, Len(acc)))

sortByImpactTiesReversed(s) == sortByImpactTiesReversedFrom(s, 1, << >>)

sortByImpact(s) == sortByImpactFrom(s, 1, << >>)

\* analyzeHtml(html, pageIdentifier).  detectTargetKeywords is called before
\* the checks run, and nothing catches what it throws.
analyzeHtml(doc, id) ==
  LET kw == detectTargetKeywords(doc, doc.title, doc.metaDescription)
  IN IF kw.status = "threw" THEN kw
     ELSE Returned(
       [pageIdentifier |-> id,
        title |-> doc.title,
        metaDescription |-> doc.metaDescription,
        headingStructure |-> [h1 |-> Len(doc.h1), h2 |-> Len(doc.h2), h3 |-> doc.h3Count],
        robotsDirectives |-> [noindex |-> hasNoIndexOf(doc), nofollow |-> hasNoFollowOf(doc)],
        socialTags |->
          [hasOpenGraph |->
             Truthy(doc.ogTitle) \/ Truthy(doc.ogDescription) \/ Truthy(doc.ogImage),
           hasTwitterCards |->
             Truthy(doc.twitterCard) \/ Truthy(doc.twitterTitle)
             \/ Truthy(doc.twitterDescription) \/ Truthy(doc.twitterImage)],
        hasCanonical |-> Truthy(doc.canonicalUrl),
        hasViewport |-> hasViewportOf(doc),
        schemaCount |-> Len(schemasOf(doc)),
        issues |-> sortByImpact(emittedIssues(doc)),
        recommendations |-> sortByImpact(emittedRecommendations(doc)),
        isReactApp |-> isReactAppOf(doc),
        keywordAnalysis |-> kw.value,
        confidenceScore |-> confidenceScoreOf(doc)])


----------------------------------------------------------------------------
(* src/analyzers: the analyzer module with the asynchronous keyword        *)
(* detector, and the text formatter                                        *)

\* stemWord(word), natural.PorterStemmer.stem: step 1a of the algorithm
\* (sses -> ss, ies -> i, ss -> ss, s -> nothing).  The further steps leave
\* the words of the documents below as they are.
stemWord(word) ==
  IF endsWith(word, <<"s", "s", "e", "s">>) THEN sliceEnd(word, 2)
  ELSE IF endsWith(word, <<"i", "e", "s">>) THEN sliceEnd(word, 2)
  ELSE IF endsWith(word, <<"s", "s">>) THEN word
  ELSE IF endsWith(word, <<"s">>) THEN sliceEnd(word, 1)
  ELSE word

\* First pass: wordCounts and normalizedWordMap, as one list of entries
\* [key, count, original] in the insertion order of the keys
RECURSIVE asyncWordCountsFrom(_, _, _)
asyncWordCountsFrom(words, i, acc) ==
  IF i > Len(words) THEN acc
  ELSE
    LET word == clean(words[i])
    IN IF NonEmpty(word) /\ Len(word) > 3 /\ word \notin commonWords
       THEN LET stemmedWord == stemWord(word)
                k == KeyIndex(acc, stemmedWord)
                sameStem == Cardinality({j \in DOMAIN words : stemWord(words[j]) = stemmedWord})
                added == Append(acc, [key |-> stemmedWord, count |-> 1, original |-> word])
                bumped ==
                  [acc EXCEPT ![k] =
                     [key |-> stemmedWord,
                      count |-> @.count + 1,
                      original |->
                        IF sameStem > Occurrences(words, @.original) THEN word ELSE @.original]]
            IN asyncWordCountsFrom(words, i + 1, IF k = 0 THEN added ELSE bumped)
       ELSE asyncWordCountsFrom(words, i + 1, acc)

\* phraseCounts[key] || 0
CountOfKey(entries, key) ==
  IF KeyIndex(entries, key) = 0 THEN 0 ELSE entries[KeyIndex(entries, key)].count

\* the phrase loop: phraseCounts and normalizedPhraseMap, as one list of
\* entries [key, count, original]
RECURSIVE asyncPhraseCountsFrom(_, _, _)
asyncPhraseCountsFrom(words, i, acc) ==
  IF i > Len(words) - 1 THEN acc
  ELSE
    LET word1 == clean(words[i])
        word2 == clean(words[i + 1])
    IN IF IsPhraseWord(word1) /\ IsPhraseWord(word2)
       THEN LET originalPhrase == word1 \o <<" ">> \o word2
                normalizedPhrase == stemWord(word1) \o <<" ">> \o stemWord(word2)
                k == KeyIndex(acc, normalizedPhrase)
                added == Append(acc, [key |-> normalizedPhrase, count |-> 1,
                                      original |-> originalPhrase])
                counted == [acc EXCEPT ![k].count = @ + 1]
                bumped ==
                  [counted EXCEPT ![k].original =
                     IF counted[k].count > CountOfKey(counted, @) THEN originalPhrase ELSE @]
            IN asyncPhraseCountsFrom(words, i + 1, IF k = 0 THEN added ELSE bumped)
       ELSE asyncPhraseCountsFrom(words, i + 1, acc)

\* words.some((w) => stemWord(w) === stemmedWord)
SomeStemIs(words, stemmedWord) == \E i \in DOMAIN words : stemWord(words[i]) = stemmedWord

\* one element of scoredWords, with the density of topWordsWithDensity (the
\* string toFixed(2) + '%', in hundredths of a percent)
asyncScoredWord(entry, totalWords, titleWords, metaWords, h1Words) ==
  [word |-> entry.original,
   stem |-> entry.key,
   score |-> entry.count
             + (IF SomeStemIs(titleWords, entry.key) THEN 10 ELSE 0)
             + (IF SomeStemIs(metaWords, entry.key) THEN 5 ELSE 0)
             + (IF SomeStemIs(h1Words, entry.key) THEN 8 ELSE 0),
   density |-> densityOf(entry.count, totalWords)]

\* one element of scoredPhrases, with the density of topPhrasesWithDensity;
\* the score is kept in halves
asyncScoredPhrase(entry, totalWords, doc, title, metaDescription) ==
  LET phraseInTitle ==
        NonEmpty(title) /\ includes(stemWord(toLowerCase(title)), entry.key)
      phraseInMeta ==
        Truthy(metaDescription)
        /\ includes(stemWord(toLowerCase(metaDescription[1])), entry.key)
      phraseInH1 ==
        \E i \in DOMAIN doc.h1 : includes(stemWord(toLowerCase(doc.h1[i])), entry.key)
  IN [phrase |-> entry.original,
      normalizedPhrase |-> entry.key,
      scoreHalves |-> 3 * entry.count
                      + (IF phraseInTitle THEN 30 ELSE 0)
                      + (IF phraseInMeta THEN 20 ELSE 0)
                      + (IF phraseInH1 THEN 24 ELSE 0),
      density |-> densityOf(entry.count, totalWords - 1)]

\* the object that the body of the async detectTargetKeywords returns
asyncKeywordResult(doc, title, metaDescription) ==
  LET words == bodyWordsOf(doc)
      wordCounts == asyncWordCountsFrom(words, 1, << >>)
      phraseCounts == asyncPhraseCountsFrom(words, 1, << >>)
      titleWords == titleWordsOf(title)
      metaWords == metaWordsOf(metaDescription)
      h1Words == headingWordsOf(doc.h1)
      scoredWords ==
        [i \in DOMAIN wordCounts |->
           asyncScoredWord(wordCounts[i], Len(words), titleWords, metaWords, h1Words)]
      scoredPhrases ==
        [i \in DOMAIN phraseCounts |->
           asyncScoredPhrase(phraseCounts[i], Len(words), doc, title, metaDescription)]
  IN [singleWords |-> slice(sortWords(scoredWords), 0, 5),
      phrases |-> slice(sortPhrases(scoredPhrases), 0, 5)]

\* a Promise object: its state and result are internal slots, not properties
Promise(state, result) == [PromiseState |-> state, PromiseResult |-> result]

\* export async function detectTargetKeywords(html, title, metaDescription):
\* the call of an async function returns a Promise; the body has no await,
\* runs to its return and fulfills the Promise
asyncDetectTargetKeywords(doc, title, metaDescription) ==
  Promise("fulfilled", asyncKeywordResult(doc, title, metaDescription))

\* Check title, in the analyzer module
moduleTitleCheck(doc) ==
  LET title == doc.title
  IN IF ~NonEmpty(title)
     THEN Emit(<<Issue("high", "Missing page title", 0, << >>, 90, "Meta Tags")>>,
               <<Recommendation("Add a descriptive page title", 90,
                                "Title tags are a critical ranking factor and appear in search results",
                                "<title>Your Primary Keyword - Your Brand Name</title>", << >>)>>)
     ELSE IF Len(title) > 60
     THEN Emit(<<Issue("medium",
                       "Title length (n chars) exceeds recommended maximum of 60 characters",
                       Len(title), << >>, 70, "Meta Tags")>>,
               <<Recommendation("Shorten title to under 60 characters", 70,
                                "Long titles get truncated in search results",
                                "<title>arg...</title>", substring57(title))>>)
     ELSE Nothing

\* analyzeHtml(html, pageIdentifier) of the analyzer module: keywordAnalysis
\* is what the call of detectTargetKeywords returned, which is not awaited
moduleAnalyzeHtml(doc, id) ==
  LET promise == asyncDetectTargetKeywords(doc, doc.title, doc.metaDescription)
      checks == <<moduleTitleCheck(doc), metaDescriptionCheck(doc), h1Check(doc),
                  imageCheck(doc), schemaCheck(doc)>>
  IN Returned(
       [pageIdentifier |-> id,
        title |-> doc.title,
        metaDescription |-> doc.metaDescription,
        headingStructure |-> [h1 |-> Len(doc.h1), h2 |-> Len(doc.h2), h3 |-> doc.h3Count],
        schemaCount |-> Len(schemasOf(doc)),
        issues |-> sortByImpact(flatten([i \in DOMAIN checks |-> checks[i].issues])),
        recommendations |->
          sortByImpact(flatten([i \in DOMAIN checks |-> checks[i].recommendations])),
        isReactApp |-> hasReactRootOf(doc),
        keywordAnalysis |-> promise])

\* a property read obj.name: undefined when the object has no such property
HasProperty(obj, name) == name \in DOMAIN obj

\* formatAnalysisResult(result): the values interpolated into the text.
\* result.keywordAnalysis.phrases.length throws a TypeError when
\* keywordAnalysis has no property phrases.
formatAnalysisResult(result) ==
  IF ~HasProperty(result.keywordAnalysis, "phrases") THEN Threw("TypeError")
  ELSE LET phrases == result.keywordAnalysis.phrases
       IN Returned(
            [pageIdentifier |-> result.pageIdentifier,
             title |-> titleOr(result, <<"M", "i", "s", "s", "i", "n", "g">>),
             titleChars |-> Len(result.title),
             metaDescription |->
               IF Truthy(result.metaDescription) THEN result.metaDescription[1]
               ELSE <<"M", "i", "s", "s", "i", "n", "g">>,
             metaDescriptionChars |->
               IF Truthy(result.metaDescription) THEN Len(result.metaDescription[1]) ELSE 0,
             headingStructure |-> result.headingStructure,
             schemaCount |-> result.schemaCount,
             isReactApp |-> result.isReactApp,
             phrases |-> [i \in DOMAIN phrases |-> phrases[i].phrase],
             issues |->
               [i \in DOMAIN result.issues |->
                  [severity |-> result.issues[i].severity,
                   impact |-> result.issues[i].impact,
                   message |-> result.issues[i].message]],
             recommendations |-> result.recommendations])

\* ---- the directory analysis of the servers ----

\* an issue of the analyzeHtml of the servers: severity and message only
plainIssue(severity, message) == [severity |-> severity, message |-> message]

\* Check title, meta description, headings and images, as the analyzeHtml of
\* the three servers do; only the title rule differs: the length under which
\* a title is reported is 0 in seo-mcp-server.js and the static server, 30 in
\* the console spy
basicIssues(doc, minTitle) ==
  LET title == doc.title
      metaDescription == doc.metaDescription
      h1Count == Len(doc.h1)
      missing == SelectSeq(doc.imgs, lacksAlt)
  IN (IF ~NonEmpty(title)
      THEN <<plainIssue("high", "Missing page title")>>
      ELSE IF Len(title) < minTitle \/ Len(title) > 60
      THEN <<plainIssue("medium", <<"Title length (n chars)", Len(title)>>)>>
      ELSE << >>)
     \o (IF ~Truthy(metaDescription)
         THEN <<plainIssue("high", "Missing meta description")>>
         ELSE IF Len(metaDescription[1]) < 50 \/ Len(metaDescription[1]) > 160
         THEN <<plainIssue("medium", <<"Meta description length (n chars) outside recommended range (50-160)",
                                       Len(metaDescription[1])>>)>>
         ELSE << >>)
     \o (IF h1Count = 0
         THEN <<plainIssue("high", "No H1 heading found")>>
         ELSE IF h1Count > 1
         THEN <<plainIssue("medium", <<"Multiple H1 headings found (n)", h1Count>>)>>
         ELSE << >>)
     \o [i \in DOMAIN missing |->
           plainIssue("medium", <<"Image missing alt text: ", srcOf(missing[i])>>)]

\* the fields every analyzeHtml of the servers returns
serverResult(doc, id, issues, recommendations) ==
  [pageIdentifier |-> id,
   title |-> doc.title,
   metaDescription |-> doc.metaDescription,
   headingStructure |-> [h1 |-> Len(doc.h1), h2 |-> Len(doc.h2), h3 |-> doc.h3Count],
   schemaCount |-> Len(schemasOf(doc)),
   issues |-> issues,
   recommendations |-> recommendations]

\* analyzeHtml(html, pageIdentifier) of seo-mcp-server.js; a tag counts as
\* present when its attribute is
serverAnalyzeHtml(doc, id) ==
  LET title == doc.title
      metaDescription == doc.metaDescription
      h1Count == Len(doc.h1)
      hasReactRoot == hasReactRootOf(doc)
      invalid == SelectSeq(doc.jsonLd, jsonThrows)
      noSchemas == Len(schemasOf(doc)) = 0
      noCanonical == doc.canonicalUrl = Undefined
      noViewport == doc.viewports = 0
      hasOgTags == \E o \in {doc.ogTitle, doc.ogDescription, doc.ogImage} : o # Undefined
      hasTwitterTags ==
        \E o \in {doc.twitterCard, doc.twitterTitle, doc.twitterDescription, doc.twitterImage} :
          o # Undefined
      when(condition, entry) == IF condition THEN <<entry>> ELSE << >>
      issues ==
        basicIssues(doc, 0)
        \o [i \in DOMAIN invalid |-> plainIssue("high", "Invalid JSON-LD schema")]
        \o when(noSchemas, plainIssue("medium", "No structured data (schema.org) found"))
        \o when(noCanonical, plainIssue("medium", "Missing canonical URL tag"))
        \o when(noViewport, plainIssue("medium", "Missing viewport meta tag"))
        \o when(~hasOgTags, plainIssue("low", "Missing Open Graph meta tags"))
        \o when(~hasTwitterTags, plainIssue("low", "Missing Twitter Card meta tags"))
        \o when(hasReactRoot,
                plainIssue("info", "This appears to be a React application with client-side rendering"))
      recommendations ==
        when(~NonEmpty(title), "Add a descriptive page title")
        \o when(NonEmpty(title) /\ Len(title) > 60, "Shorten title to under 60 characters")
        \o when(~Truthy(metaDescription), "Add a descriptive meta description")
        \o when(Truthy(metaDescription)
                /\ (Len(metaDescription[1]) < 50 \/ Len(metaDescription[1]) > 160),
                "Adjust meta description to be between 50-160 characters")
        \o when(h1Count = 0, "Add an H1 heading to your page")
        \o when(h1Count > 1, "Use only one H1 heading per page")
        \o when(\E i \in DOMAIN doc.imgs : doc.imgs[i].alt = Undefined, "Add alt text to all images")
        \o when(noSchemas, "Add structured data using JSON-LD")
        \o when(noCanonical, "Add a canonical URL tag")
        \o when(noViewport, "Add a viewport meta tag for better mobile rendering")
        \o when(~hasOgTags, "Add Open Graph meta tags for better social media sharing")
        \o when(~hasTwitterTags, "Add Twitter Card meta tags for better Twitter sharing")
        \o (IF hasReactRoot
            THEN <<"Consider using server-side rendering (Next.js) or static site generation (Gatsby) for better SEO",
                   "Note: This analysis is limited to the static HTML. The rendered content may differ.">>
            ELSE << >>)
  IN serverResult(doc, id, issues, recommendations) @@ [isReactApp |-> hasReactRoot]

\* analyzeHtml(html, pageIdentifier) of the static server and of the console
\* spy, which differ in the title rule only
validatingAnalyzeHtml(doc, id, minTitle) ==
  serverResult(doc, id,
               basicIssues(doc, minTitle) \o serverSchemaIssues(doc),
               IF Len(schemasOf(doc)) = 0
               THEN <<"Add structured data using JSON-LD for rich search results">>
               ELSE << >>)
  @@ [schemas |-> schemasOf(doc)]

staticAnalyzeHtml(doc, id) == validatingAnalyzeHtml(doc, id, 0)

spyAnalyzeHtml(doc, id) == validatingAnalyzeHtml(doc, id, 30)

\* the issues of all results, in order
allIssues(results) == flatten([i \in DOMAIN results |-> results[i].issues])

\* the number of issues of a severity
CountSeverity(issues, severity) ==
  Cardinality({i \in DOMAIN issues : issues[i].severity = severity})

\* issueCounts with a fault: a file counts once for each severity it has
issueCountsPerFile(results) ==
  [severity \in {"high", "medium", "low", "info"} |->
     Cardinality({i \in DOMAIN results : CountSeverity(results[i].issues, severity) > 0})]

\* issueCounts of formatDirectoryAnalysisResults: an issue is counted when its
\* severity is one of the keys
issueCounts(results) ==
  [severity \in {"high", "medium", "low", "info"} |->
     CountSeverity(allIssues(results), severity)]

\* totalIssues of formatMultipleAnalyses
totalIssues(analyses) ==
  [severity \in {"high", "medium", "low"} |-> CountSeverity(allIssues(analyses), severity)]

\* the distinct entries of a list, each where it is first
distinct(list) ==
  SelectSeq([i \in DOMAIN list |-> IF \E j \in 1..(i - 1) : list[j] = list[i]
                                    THEN << >> ELSE <<list[i]>>],
            LAMBDA e : e # << >>)

\* the values formatDirectoryAnalysisResults(results, directoryPath) writes
\* into its text, in the order of the text
formatDirectoryAnalysisResults(results) ==
  [analyzed |-> Len(results),
   issueSummary |-> issueCounts(results),
   reactApps |-> Cardinality({i \in DOMAIN results : results[i].isReactApp}),
   files |-> [i \in DOMAIN results |->
                [index |-> i,
                 pageIdentifier |-> results[i].pageIdentifier,
                 title |-> results[i].title,
                 metaDescription |-> results[i].metaDescription,
                 headingStructure |-> results[i].headingStructure,
                 schemaCount |-> results[i].schemaCount,
                 issues |-> Len(results[i].issues)]],
   recommendations |->
     flatten(distinct(flatten([i \in DOMAIN results |-> results[i].recommendations])))]

\* the values formatMultipleAnalyses(analyses, techStack) writes into its
\* markdown for a project with no detected framework
formatMultipleAnalyses(analyses) ==
  [issuesSummary |-> totalIssues(analyses),
   files |-> [i \in DOMAIN analyses |->
                [index |-> i,
                 pageIdentifier |-> analyses[i].pageIdentifier,
                 title |-> analyses[i].title,
                 metaDescription |-> analyses[i].metaDescription,
                 issues |-> Len(analyses[i].issues),
                 headingStructure |-> analyses[i].headingStructure,
                 issueList |-> analyses[i].issues,
                 recommendations |-> analyses[i].recommendations]]]
----------------------------------------------------------------------------
(* Documents: what the selector queries of the analyzer return             *)

\* a document in which every query comes back empty
BlankDoc ==
  [title |-> << >>,                \* $('title').text()
   metaDescription |-> Undefined,  \* $('meta[name="description"]').attr('content')
   robots |-> << >>,               \* content of each meta[name="robots"], in order
   canonicalUrl |-> Undefined,     \* $('link[rel="canonical"]').attr('href')
   ogTitle |-> Undefined,
   ogDescription |-> Undefined,
   ogImage |-> Undefined,
   twitterCard |-> Undefined,
   twitterTitle |-> Undefined,
   twitterDescription |-> Undefined,
   twitterImage |-> Undefined,
   h1 |-> << >>,                   \* the text of each h1 element
   h2 |-> << >>,                   \* the text of each h2 element
   h3Count |-> 0,                  \* $('h3').length
   rootElements |-> 0,             \* $('#root').length
   appElements |-> 0,              \* $('#app').length
   reactrootElements |-> 0,        \* $('[data-reactroot]').length
   emptyDivs |-> 0,                \* $('div:empty').length
   scripts |-> << >>,              \* src of each script element
   imgs |-> << >>,                 \* [alt, src, role] of each img element
   jsonLd |-> << >>,               \* html of each script[type="application/ld+json"]
   viewports |-> 0,                \* $('meta[name="viewport"]').length
   text |-> << >>]                 \* the body text outside the headings

\* s followed by filler up to n characters
Pad(s, n) == s \o [i \in 1..(n - Len(s)) |-> "x"]

MaxTextWords == 3

Vocabulary == {<<"t", "h", "e">>, <<"c", "a", "t">>, <<"c", "a", "t", "s">>, <<"f", "a", "c", "t", "s">>}

RECURSIVE TextsOfLength(_)
TextsOfLength(n) ==
  IF n = 0 THEN {<< >>}
  ELSE IF n = 1 THEN Vocabulary
  ELSE {t \o <<" ">> \o w : t \in TextsOfLength(n - 1), w \in Vocabulary}

ShortTexts == UNION {TextsOfLength(n) : n \in 0..MaxTextWords}

CatText == <<"t", "h", "e", " ", "c", "a", "t", " ", "s", "a", "t", " ", "o", "n", " ", "t", "h", "e", " ", "m", "a", "t", " ", "t", "h", "e", " ", "c", "a", "t", " ", "r", "a", "n">>

LongTexts ==
  {CatText,
   <<"c", "a", "t", "s", " ", "d", "o", "g", "s", " ", "b", "i", "r", "d", "s", " ", "f", "i", "s", "h", "e", "s", " ", "h", "o", "r", "s", "e", "s", " ", "s", "n", "a", "k", "e", "s", " ", "h", "o", "r", "s", "e", "s", " ", "s", "n", "a", "k", "e", "s">>,
   <<"R", "u", "n", "n", "i", "n", "g", " ", "s", "h", "o", "e", "s", ",", " ", "r", "u", "n", "n", "i", "n", "g", " ", "s", "h", "o", "e", "s", ":", " ", "r", "u", "n", "n", "i", "n", "g", "-", "s", "h", "o", "e", "s", " ", "r", "u", "n", "n", "i", "n", "g">>}

CatFacts == <<"C", "a", "t", " ", "F", "a", "c", "t", "s">>

KwTitles == {<< >>, CatFacts, <<"s", "n", "a", "k", "e", "s">>}
KwMetas == {Undefined, Some(<<"f", "a", "c", "t", "s", " ", "a", "b", "o", "u", "t", " ", "c", "a", "t", "s">>)}
KwH1s == {<< >>, <<<<"C", "a", "t", " ", "C", "a", "r", "e">>>>}
KwH2s == {<< >>, <<<<"f", "a", "c", "t", "s">>, <<"H", "o", "r", "s", "e", "s", " ", "S", "n", "a", "k", "e", "s">>>>}

\* the documents of the keyword detector: texts against placements
KwDocs ==
  {[BlankDoc EXCEPT !.title = t, !.metaDescription = m, !.h1 = a, !.h2 = b, !.text = x] :
     t \in KwTitles, m \in KwMetas, a \in KwH1s, b \in KwH2s,
     x \in ShortTexts \cup LongTexts}

Title60 == Pad(<<"C", "a", "t", " ", "F", "a", "c", "t", "s", " ", "a", "n", "d", " ", "c", "a", "t", " ", "c", "a", "r", "e", " ">>, 60)
Title61 == Pad(<<"C", "a", "t", " ", "F", "a", "c", "t", "s", " ", "a", "n", "d", " ", "c", "a", "t", " ", "c", "a", "r", "e", " ">>, 61)
Title70 == Pad(<<"C", "a", "t", " ", "F", "a", "c", "t", "s", " ", "a", "n", "d", " ", "c", "a", "t", " ", "c", "a", "r", "e", " ">>, 70)

Titles == {<< >>, CatFacts, Title60, Title61, Title70}

Metas ==
  {Undefined, Some(<<"f", "a", "c", "t", "s", " ", "a", "b", "o", "u", "t", " ", "c", "a", "t", "s">>), Some(Pad(<<"f", "a", "c", "t", "s", " ", "a", "b", "o", "u", "t", " ", "c", "a", "t", "s", " ">>, 50)),
   Some(Pad(<<"f", "a", "c", "t", "s", " ", "a", "b", "o", "u", "t", " ", "c", "a", "t", "s", " ">>, 161))}

RobotsTags ==
  {<< >>, <<Some(<<"n", "o", "i", "n", "d", "e", "x">>)>>, <<Some(<<"n", "o", "f", "o", "l", "l", "o", "w">>)>>, <<Some(<<"n", "o", "i", "n", "d", "e", "x", ",", "n", "o", "f", "o", "l", "l", "o", "w">>)>>,
   <<Some(<<"i", "n", "d", "e", "x", ",", "f", "o", "l", "l", "o", "w">>), Some(<<"n", "o", "i", "n", "d", "e", "x">>)>>}

H1s == {<< >>, <<<<"C", "a", "t", " ", "C", "a", "r", "e">>>>, <<<<"C", "a", "t", " ", "C", "a", "r", "e">>, <<"c", "a", "t", "s">>>>}
H2s == {<< >>, <<<<"f", "a", "c", "t", "s">>>>}

\* no mount point; a #root element; an empty div beside a bundle script
Static == [rootElements |-> 0, emptyDivs |-> 0, scripts |-> << >>]
Mounts ==
  {Static,
   [rootElements |-> 1, emptyDivs |-> 1, scripts |-> << >>],
   [rootElements |-> 0, emptyDivs |-> 1, scripts |-> <<Undefined, Some(<<"/", "s", "t", "a", "t", "i", "c", "/", "b", "u", "n", "d", "l", "e", ".", "j", "s">>)>>]}

Url == <<"h", "t", "t", "p", "s", ":", "/", "/", "x", ".", "i", "o", "/">>

\* a document with none or with all of the social, canonical and viewport tags
WithExtras(doc, present) ==
  IF present
  THEN [doc EXCEPT !.canonicalUrl = Some(Url), !.ogTitle = Some(CatFacts),
                   !.ogImage = Some(Url), !.twitterCard = Some(<<"s", "u", "m", "m", "a", "r", "y">>),
                   !.viewports = 1]
  ELSE doc

WithMount(doc, m) ==
  [doc EXCEPT !.rootElements = m.rootElements, !.emptyDivs = m.emptyDivs,
              !.scripts = m.scripts]

BodyTexts == {<< >>, <<"c", "a", "t", " ", "f", "a", "c", "t", "s">>}

\* the documents of the rule checks: every combination of the head facts
RuleDocs ==
  {WithExtras(WithMount(
     [BlankDoc EXCEPT !.title = t, !.metaDescription = m, !.robots = r, !.h1 = a,
                      !.h2 = b, !.text = x], mount), extras) :
     t \in Titles, m \in Metas, r \in RobotsTags, a \in H1s, b \in H2s,
     mount \in Mounts, extras \in BOOLEAN, x \in BodyTexts}

MaxImages == 2
MaxJsonLd == 2

Images ==
  {[alt |-> Undefined, src |-> Undefined, role |-> Undefined],
   [alt |-> Some(<<"a", " ", "c", "a", "t">>), src |-> Some(<<"b", ".", "p", "n", "g">>), role |-> Undefined],
   [alt |-> Undefined, src |-> Some(<<"d", ".", "p", "n", "g">>), role |-> Some(<<"p", "r", "e", "s", "e", "n", "t", "a", "t", "i", "o", "n">>)]}

JsonLdTexts ==
  {"{\"@context\":\"https://schema.org\",\"@type\":\"WebPage\"}", "{\"name\":\"x\"}",
   "{\"@type\":"}

SeqsUpTo(S, n) == UNION {[1..k -> S] : k \in 0..n}

\* the documents of the per-element checks: images and JSON-LD blocks
ListDocs ==
  {WithMount([BlankDoc EXCEPT !.title = Title70, !.robots = r, !.imgs = i,
                              !.jsonLd = j, !.text = x], mount) :
     r \in {<< >>, <<Some(<<"n", "o", "i", "n", "d", "e", "x", ",", "n", "o", "f", "o", "l", "l", "o", "w">>)>>},
     i \in SeqsUpTo(Images, MaxImages), j \in SeqsUpTo(JsonLdTexts, MaxJsonLd),
     mount \in Mounts, x \in BodyTexts}

\* the documents of the client-render detection: each mount-point selector,
\* an empty div, and scripts with and without a bundler name in their src
MountDocs ==
  {[BlankDoc EXCEPT !.title = CatFacts, !.rootElements = r, !.appElements = a,
                    !.reactrootElements = d, !.emptyDivs = e, !.scripts = s, !.text = x] :
     r \in 0..1, a \in 0..1, d \in 0..1, e \in 0..1,
     s \in {<< >>, <<Some(<<"/", "j", "s", "/", "m", "a", "i", "n", ".", "j", "s">>)>>, <<Some(<<"/", "j", "s", "/", "r", "e", "a", "c", "t", ".", "m", "i", "n", ".", "j", "s">>)>>,
            <<Undefined, Some(<<"/", "j", "s", "/", "1", ".", "c", "h", "u", "n", "k", ".", "j", "s">>)>>},
     x \in BodyTexts}

Docs == RuleDocs \cup ListDocs \cup MountDocs

----------------------------------------------------------------------------
(* The analyzer called on a document                                       *)

Init ==
  /\ html \in Docs
  /\ pageIdentifier = "page"
  /\ keywordAnalysis = Pending
  /\ analysis = Pending
  /\ formatted = Pending
  /\ batchIdle /\ logIdle /\ projectIdle /\ lookupIdle /\ stemIdle

\* one call of analyzeHtml(html, pageIdentifier), the keyword detection that
\* it starts with included
AnalyzeHtml ==
  /\ analysis' = analyzeHtml(html, pageIdentifier)
  /\ UNCHANGED <<html, pageIdentifier, keywordAnalysis, formatted>>
  /\ UNCHANGED <<batchVars, logVars, projectVars, lookupVars, stemVars>>

Next == AnalyzeHtml

Spec == Init /\ [][Next]_vars

(* The keyword detector called on a document                               *)

\* bodies whose words share a stem, some of them followed by a comma
SurfaceWords == {<<"w", "a", "l", "k", "e", "d", ",">>, <<"w", "a", "l", "k", "e", "d">>, <<"w", "a", "l", "k", "s">>, <<"w", "a", "l", "k", "i", "n", "g">>}

RECURSIVE SurfaceTexts(_)
SurfaceTexts(n) ==
  IF n = 1 THEN SurfaceWords
  ELSE SurfaceTexts(n - 1) \cup {t \o <<" ">> \o w : t \in SurfaceTexts(n - 1), w \in SurfaceWords}

SurfaceDocs == {[BlankDoc EXCEPT !.text = x] : x \in SurfaceTexts(MaxTextWords)}

InitKw ==
  /\ html \in KwDocs \cup SurfaceDocs
  /\ pageIdentifier = "page"
  /\ keywordAnalysis = Pending
  /\ analysis = Pending
  /\ formatted = Pending
  /\ batchIdle /\ logIdle /\ projectIdle /\ lookupIdle /\ stemIdle

\* one call of detectTargetKeywords(html, title, metaDescription) with the
\* title and the description of the document, as analyzeHtml calls it
DetectTargetKeywords ==
  /\ keywordAnalysis' = detectTargetKeywords(html, html.title, html.metaDescription)
  /\ UNCHANGED <<html, pageIdentifier, analysis, formatted>>
  /\ UNCHANGED <<batchVars, logVars, projectVars, lookupVars, stemVars>>

NextKw == DetectTargetKeywords

SpecKw == InitKw /\ [][NextKw]_vars


(* The analyzer module and the formatter called on a document              *)

\* the documents of the analyzer module
ModuleDocs ==
  {[BlankDoc EXCEPT !.title = t, !.metaDescription = m, !.h1 = a, !.jsonLd = j, !.text = x] :
     t \in {<< >>, CatFacts, Title70}, m \in KwMetas, a \in {<< >>, <<<<"c", "a", "t", "s">>>>},
     j \in {<< >>, <<"{\"@type\":">>}, x \in ShortTexts}

InitModule ==
  /\ html \in ModuleDocs
  /\ pageIdentifier = "page"
  /\ keywordAnalysis = Pending
  /\ analysis = Pending
  /\ formatted = Pending
  /\ batchIdle /\ logIdle /\ projectIdle /\ lookupIdle /\ stemIdle

\* one call of the analyzeHtml of the analyzer module
ModuleAnalyzeHtml ==
  /\ analysis = Pending
  /\ analysis' = moduleAnalyzeHtml(html, pageIdentifier)
  /\ UNCHANGED <<html, pageIdentifier, keywordAnalysis, formatted>>
  /\ UNCHANGED <<batchVars, logVars, projectVars, lookupVars, stemVars>>

\* the caller passes the result to formatAnalysisResult in the same turn
FormatAnalysisResult ==
  /\ analysis # Pending
  /\ formatted = Pending
  /\ formatted' = formatAnalysisResult(analysis.value)
  /\ UNCHANGED <<html, pageIdentifier, keywordAnalysis, analysis>>
  /\ UNCHANGED <<batchVars, logVars, projectVars, lookupVars, stemVars>>

NextModule == ModuleAnalyzeHtml \/ FormatAnalysisResult

SpecModule == InitModule /\ [][NextModule]_vars

\* ---- the directory analysis requests ----

MaxFiles == 3

\* fs.readFile rejects for a file with this content
Unreadable == [unreadable |-> TRUE]

\* a page with nothing missing, a page with everything missing, and the shell
\* of a client-rendered application
CompletePage ==
  [WithExtras([BlankDoc EXCEPT !.title = Pad(<<"C", "a", "t", " ", "F", "a", "c", "t", "s", " ", "a", "n", "d", " ", "c", "a", "t", " ", "c", "a", "r", "e", " ">>, 40),
                               !.metaDescription = Some(Pad(<<"f", "a", "c", "t", "s", " ", "a", "b", "o", "u", "t", " ", "c", "a", "t", "s", " ">>, 50)),
                               !.h1 = <<<<"c", "a", "t", "s">>>>,
                               !.jsonLd = <<"{\"@context\":\"https://schema.org\",\"@type\":\"WebPage\"}">>],
              TRUE)
     EXCEPT !.viewports = 1]

ShellPage ==
  [BlankDoc EXCEPT !.title = CatFacts, !.rootElements = 1,
                   !.imgs = <<[alt |-> Undefined, src |-> Some(<<"d", ".", "p", "n", "g">>), role |-> Undefined]>>,
                   !.jsonLd = <<"{\"name\":\"x\"}", "{\"@type\":">>]

FileContents == {Unreadable, CompletePage, BlankDoc, ShellPage}

\* a request: the handler that serves it and the files findHtmlFiles found,
\* each file named by its place in the list
BatchRequests ==
  {[handler |-> h, htmlFiles |-> f, next |-> 1, results |-> << >>,
    promises |-> [k \in DOMAIN f |-> Pending], settled |-> << >>, response |-> Pending] :
     h \in {"directory", "static", "codebase"}, f \in SeqsUpTo(FileContents, MaxFiles)}

InitBatch ==
  /\ batch \in BatchRequests
  /\ analyzerIdle /\ logIdle /\ projectIdle /\ lookupIdle /\ stemIdle

batchFrame == UNCHANGED <<analyzerVars, logVars, projectVars, lookupVars, stemVars>>

\* htmlFiles.length === 0 in seo-mcp-server.js and in the static server
NoHtmlFiles ==
  /\ batch.handler \in {"directory", "static"}
  /\ batch.response = Pending
  /\ Len(batch.htmlFiles) = 0
  /\ batch' = [batch EXCEPT !.response = Returned("No HTML files found")]
  /\ batchFrame

\* one iteration of the loop of seo-mcp-server.js: a file that cannot be
\* read is logged and the loop goes on
DirectoryIteration ==
  /\ batch.handler = "directory"
  /\ batch.response = Pending
  /\ batch.next <= Len(batch.htmlFiles)
  /\ LET file == batch.next
         content == batch.htmlFiles[file]
     IN batch' = [batch EXCEPT
                    !.next = @ + 1,
                    !.results = IF content = Unreadable
                                THEN @
                                ELSE Append(@, serverAnalyzeHtml(content, file))]
  /\ batchFrame

\* after the loop: Format and return results
DirectoryRespond ==
  /\ batch.handler = "directory"
  /\ batch.response = Pending
  /\ Len(batch.htmlFiles) > 0
  /\ batch.next > Len(batch.htmlFiles)
  /\ batch' = [batch EXCEPT !.response = Returned(formatDirectoryAnalysisResults(batch.results))]
  /\ batchFrame

\* one iteration of the loop of the static server: the rejection of
\* fs.readFile leaves the loop and is answered by the catch of the handler
StaticIteration ==
  /\ batch.handler = "static"
  /\ batch.response = Pending
  /\ batch.next <= Len(batch.htmlFiles)
  /\ LET file == batch.next
         content == batch.htmlFiles[file]
     IN batch' = IF content = Unreadable
                 THEN [batch EXCEPT !.response = Threw("Error analyzing SEO")]
                 ELSE [batch EXCEPT !.next = @ + 1,
                                    !.results = Append(@, staticAnalyzeHtml(content, file))]
  /\ batchFrame

StaticRespond ==
  /\ batch.handler = "static"
  /\ batch.response = Pending
  /\ Len(batch.htmlFiles) > 0
  /\ batch.next > Len(batch.htmlFiles)
  /\ batch' = [batch EXCEPT !.response = Returned(formatMultipleAnalyses(batch.results))]
  /\ batchFrame

\* analyzeHtmlFile(filePath) of the console spy settles; the calls are all
\* started by htmlFiles.map and their reads finish in any order
AnalyzeHtmlFile ==
  /\ batch.handler = "codebase"
  /\ \E file \in DOMAIN batch.htmlFiles :
       /\ batch.promises[file] = Pending
       /\ LET content == batch.htmlFiles[file]
          IN batch' = [batch EXCEPT
                         !.promises[file] =
                           IF content = Unreadable
                           THEN Threw("ENOENT")
                           ELSE Returned([filePath |-> file] @@ spyAnalyzeHtml(content, file)),
                         !.settled = Append(@, file)]
  /\ batchFrame

\* promiseAll with a fault: the values in the order the promises settled
promiseAllAsSettled(promises, settled) == [i \in DOMAIN settled |-> promises[settled[i]].value]

\* the value Promise.all(promises) is fulfilled with
promiseAll(promises, settled) == [file \in DOMAIN promises |-> promises[file].value]

\* await Promise.all(...) continues: res.json when every promise is
\* fulfilled, the catch with status 500 once one is rejected
CodebaseRespond ==
  /\ batch.handler = "codebase"
  /\ batch.response = Pending
  /\ \/ /\ \A file \in DOMAIN batch.promises : batch.promises[file].status = "returned"
        /\ batch' = [batch EXCEPT !.response =
                       Returned([totalFiles |-> Len(batch.htmlFiles),
                                 results |-> promiseAll(batch.promises, batch.settled)])]
     \/ /\ \E file \in DOMAIN batch.promises : batch.promises[file].status = "threw"
        /\ batch' = [batch EXCEPT !.response = Threw(500)]
  /\ batchFrame

NextBatch ==
  \/ NoHtmlFiles
  \/ DirectoryIteration
  \/ DirectoryRespond
  \/ StaticIteration
  \/ StaticRespond
  \/ AnalyzeHtmlFile
  \/ CodebaseRespond

SpecBatch == InitBatch /\ [][NextBatch]_vars

\* ---- simpleStem on its own ----

MaxSuffixes == 2

\* the endings simpleStem knows and some that it does not
WordEndings ==
  {<<"i", "n", "g">>, <<"l", "y">>, <<"e", "s">>, <<"s">>, <<"e", "d">>, <<"e", "r">>, <<"m", "e", "n", "t">>, <<"t", "i", "o", "n">>, <<"e">>, <<"I", "O", "N">>}

RECURSIVE EndingChains(_)
EndingChains(n) ==
  IF n = 0 THEN {<< >>}
  ELSE EndingChains(n - 1) \cup {c \o e : c \in EndingChains(n - 1), e \in WordEndings}

StemWords == {b \o c : b \in {<< >>, <<"C", "a", "t">>, <<"b", "o", "x">>}, c \in EndingChains(MaxSuffixes)}

InitStem ==
  /\ stem \in {[word |-> w, result |-> Pending] : w \in StemWords}
  /\ analyzerIdle /\ batchIdle /\ logIdle /\ projectIdle /\ lookupIdle

\* one call of simpleStem(word)
SimpleStem ==
  /\ stem.result = Pending
  /\ stem' = [stem EXCEPT !.result = Returned(simpleStem(stem.word))]
  /\ UNCHANGED <<analyzerVars, batchVars, logVars, projectVars, lookupVars>>

NextStem == SimpleStem

SpecStem == InitStem /\ [][NextStem]_vars

\* ---- the console log server ----

MAX_LOGS_PER_SESSION == 500

MaxRequests == 3

\* storeLogs with a fault: the oldest entries are the ones kept
storeLogsKeepingOldest(store, body, date) ==
  LET sessionId == body.sessionId[1]
      logs == body.logs[1]
      session == IF sessionId \notin DOMAIN store
                 THEN [logs |-> << >>, url |-> body.url[1], firstSeen |-> date, lastSeen |-> date]
                 ELSE [store[sessionId] EXCEPT !.lastSeen = date]
      pushed == session.logs \o logs
      trimmed == IF Len(pushed) > MAX_LOGS_PER_SESSION
                 THEN SubSeq(pushed, 1, MAX_LOGS_PER_SESSION)
                 ELSE pushed
  IN [k \in DOMAIN store \cup {sessionId} |->
        IF k = sessionId THEN [session EXCEPT !.logs = trimmed] ELSE store[k]]

\* sessions after the handler has created or touched the session, pushed
\* the logs and trimmed them with slice(-MAX_LOGS_PER_SESSION)
storeLogs(store, body, date) ==
  LET sessionId == body.sessionId[1]
      logs == body.logs[1]
      session == IF sessionId \notin DOMAIN store
                 THEN [logs |-> << >>, url |-> body.url[1], firstSeen |-> date, lastSeen |-> date]
                 ELSE [store[sessionId] EXCEPT !.lastSeen = date]
      pushed == session.logs \o logs
      trimmed == IF Len(pushed) > MAX_LOGS_PER_SESSION
                 THEN SubSeq(pushed, Len(pushed) - MAX_LOGS_PER_SESSION + 1, Len(pushed))
                 ELSE pushed
  IN [k \in DOMAIN store \cup {sessionId} |->
        IF k = sessionId THEN [session EXCEPT !.logs = trimmed] ELSE store[k]]

\* a null entry of logs: reading log.type throws
NullLog == [null |-> TRUE]

\* postConsoleLogs with a fault: url is not among the required fields
postConsoleLogsWithoutUrl(store, body, date) ==
  IF body.logs = Undefined \/ ~Truthy(body.sessionId)
  THEN [sessions |-> store, status |-> 400,
        json |-> [success |-> FALSE, error |-> "Missing required fields"]]
  ELSE IF \E i \in DOMAIN body.logs[1] : body.logs[1][i] = NullLog
  THEN [sessions |-> store, status |-> 500, json |-> [success |-> FALSE, error |-> "Server error"]]
  ELSE LET body1 == [body EXCEPT !.url = IF @ = Undefined THEN Some(<< >>) ELSE @]
           stored == storeLogs(store, body1, date)
       IN [sessions |-> stored, status |-> 200,
           json |-> [success |-> TRUE, logCount |-> Len(stored[body.sessionId[1]].logs)]]

\* the handler of POST /console-logs on a body: the store it leaves and the
\* response it sends.  logs is an array or missing, and an array is truthy
\* also when it is empty; logs.forEach throws on a null entry before the
\* store is touched, and the catch answers 500.
postConsoleLogs(store, body, date) ==
  IF body.logs = Undefined \/ ~Truthy(body.sessionId) \/ ~Truthy(body.url)
  THEN [sessions |-> store, status |-> 400,
        json |-> [success |-> FALSE, error |-> "Missing required fields"]]
  ELSE IF \E i \in DOMAIN body.logs[1] : body.logs[1][i] = NullLog
  THEN [sessions |-> store, status |-> 500, json |-> [success |-> FALSE, error |-> "Server error"]]
  ELSE LET stored == storeLogs(store, body, date)
       IN [sessions |-> stored, status |-> 200,
           json |-> [success |-> TRUE, logCount |-> Len(stored[body.sessionId[1]].logs)]]

\* the log entries of a request: entry i of request r has content <<r, i>>
LogEntries(r, n) == [i \in 1..n |-> [type |-> "log", content |-> <<r, i>>]]

\* the bodies of the r-th request
RequestBodies(r) ==
  {[logs |-> l, sessionId |-> s, url |-> u] :
     l \in {Undefined, Some(<<NullLog>>)}
           \cup {Some(LogEntries(r, n)) : n \in {0, 1, MAX_LOGS_PER_SESSION - 1, MAX_LOGS_PER_SESSION + 1}},
     s \in {Undefined, Some(<< >>), Some(<<"a">>), Some(<<"b">>)},
     u \in {Undefined, Some(<<"h", "t", "t", "p", ":", "/", "/", "l", "o", "c", "a", "l", "h", "o", "s", "t", ":", "3", "0", "0", "0", "/">>)}}

NoSessions == [k \in {} |-> Idle]

InitLogs ==
  /\ sessions = NoSessions
  /\ res = Idle
  /\ now = 0
  /\ received = NoSessions
  /\ analyzerIdle /\ batchIdle /\ projectIdle /\ lookupIdle /\ stemIdle

\* one POST /console-logs request, handled in one turn of the event loop
PostConsoleLogs ==
  /\ now < MaxRequests
  /\ \E body \in RequestBodies(now + 1) :
       LET done == postConsoleLogs(sessions, body, now + 1)
       IN /\ sessions' = done.sessions
          /\ res' = [body |-> body, status |-> done.status, json |-> done.json]
          /\ received' =
               IF done.status = 200
               THEN LET sessionId == body.sessionId[1]
                    IN [k \in DOMAIN received \cup {sessionId} |->
                          IF k = sessionId
                          THEN (IF k \in DOMAIN received THEN received[k] ELSE << >>) \o body.logs[1]
                          ELSE received[k]]
               ELSE received
  /\ now' = now + 1
  /\ UNCHANGED <<analyzerVars, batchVars, projectVars, lookupVars, stemVars>>

NextLogs == PostConsoleLogs

SpecLogs == InitLogs /\ [][NextLogs]_vars

\* ---- analyzeJsProject ----

Null == [null |-> TRUE]

\* deps.x of the merged dependencies
Has(deps, name) == name \in deps

\* detectTechStack(directoryPath) for a package.json with the dependencies
\* deps (Undefined when there is no readable package.json) and the directory
\* listing files (Undefined when readdir fails); a failed read leaves what
\* was detected so far.  A null string is the empty one.
detectTechStack(deps, files, appFile) ==
  LET has(name) == deps # Undefined /\ Has(deps[1], name)
      framework0 ==
        IF has("react") THEN <<"R", "e", "a", "c", "t">> ELSE IF has("vue") THEN <<"V", "u", "e">>
        ELSE IF has("angular") THEN <<"A", "n", "g", "u", "l", "a", "r">> ELSE IF has("svelte") THEN <<"S", "v", "e", "l", "t", "e">>
        ELSE << >>
      framework1 ==
        IF has("next") THEN <<"N", "e", "x", "t", ".", "j", "s", " ", "(", "R", "e", "a", "c", "t", ")">> ELSE IF has("gatsby") THEN <<"G", "a", "t", "s", "b", "y", " ", "(", "R", "e", "a", "c", "t", ")">>
        ELSE IF has("nuxt") THEN <<"N", "u", "x", "t", ".", "j", "s", " ", "(", "V", "u", "e", ")">> ELSE framework0
      rendering ==
        IF has("next") THEN "SSR/SSG" ELSE IF has("gatsby") THEN "SSG"
        ELSE IF has("nuxt") THEN "SSR/SSG" ELSE IF has("@angular/universal") THEN "SSR"
        ELSE IF has("react-snap") \/ has("prerender") THEN "Pre-rendered"
        ELSE IF framework0 # << >> THEN "CSR (Client-side rendering)" ELSE "null"
      router ==
        IF has("react-router") \/ has("react-router-dom") THEN "React Router"
        ELSE IF has("vue-router") THEN "Vue Router"
        ELSE IF has("@angular/router") THEN "Angular Router"
        ELSE IF has("next") \/ has("gatsby") \/ has("nuxt") THEN "Built-in routing" ELSE "null"
      tool(name, label) == IF has(name) THEN <<label>> ELSE << >>
      seoTools ==
        tool("react-helmet", "React Helmet") \o tool("react-helmet-async", "React Helmet Async")
        \o tool("next-seo", "Next SEO") \o tool("vue-meta", "Vue Meta")
        \o tool("react-snap", "React Snap") \o tool("prerender", "Prerender")
      buildTool ==
        IF has("webpack") THEN "Webpack" ELSE IF has("vite") THEN "Vite"
        ELSE IF has("parcel") THEN "Parcel" ELSE IF has("@angular/cli") THEN "Angular CLI"
        ELSE "null"
      framework ==
        IF framework1 # << >> \/ files = Undefined THEN framework1
        ELSE IF "angular.json" \in files[1] THEN <<"A", "n", "g", "u", "l", "a", "r">>
        ELSE IF "vue.config.js" \in files[1] THEN <<"V", "u", "e">>
        ELSE IF "gatsby-config.js" \in files[1] THEN <<"G", "a", "t", "s", "b", "y", " ", "(", "R", "e", "a", "c", "t", ")">>
        ELSE IF "next.config.js" \in files[1] THEN <<"N", "e", "x", "t", ".", "j", "s", " ", "(", "R", "e", "a", "c", "t", ")">>
        ELSE IF "nuxt.config.js" \in files[1] THEN <<"N", "u", "x", "t", ".", "j", "s", " ", "(", "V", "u", "e", ")">>
        ELSE IF appFile THEN <<"R", "e", "a", "c", "t", " ", "(", "l", "i", "k", "e", "l", "y", ")">>
        ELSE << >>
  IN [framework |-> framework, rendering |-> rendering, router |-> router,
      seoTools |-> seoTools, buildTool |-> buildTool]

\* parseInt(digits, 10)
RECURSIVE parseInt(_)
parseInt(digits) ==
  IF digits = << >> THEN 0
  ELSE 10 * parseInt(SubSeq(digits, 1, Len(digits) - 1))
       + (CHOOSE d \in 0..9 : <<"0", "1", "2", "3", "4", "5", "6", "7", "8", "9">>[d + 1]
                                = digits[Len(digits)])

\* scriptContent.match(/--port[=\s](\d+)/): the digits of the first match, or
\* Undefined
portMatch(scriptContent) ==
  LET starts == {i \in 1..(Len(scriptContent) - 7) :
                   /\ SubSeq(scriptContent, i, i + 5) = <<"-", "-", "p", "o", "r", "t">>
                   /\ scriptContent[i + 6] \in WhitespaceChars \cup {"="}
                   /\ scriptContent[i + 7] \in Digits}
  IN IF starts = {} THEN Undefined
     ELSE LET i == CHOOSE s \in starts : \A t \in starts : s <= t
              last == CHOOSE e \in (i + 7)..Len(scriptContent) :
                        /\ \A k \in (i + 7)..e : scriptContent[k] \in Digits
                        /\ e = Len(scriptContent) \/ scriptContent[e + 1] \notin Digits
          IN Some(SubSeq(scriptContent, i + 7, last))

\* the start script startDevServer picks: dev, start, serve, or none
startCommandOf(scripts) ==
  IF scripts = Null THEN "null"
  ELSE IF "dev" \in DOMAIN scripts /\ NonEmpty(scripts["dev"]) THEN "dev"
  ELSE IF "start" \in DOMAIN scripts /\ NonEmpty(scripts["start"]) THEN "start"
  ELSE IF "serve" \in DOMAIN scripts /\ NonEmpty(scripts["serve"]) THEN "serve"
  ELSE "null"

\* startDevServer with a fault: the process handle is not returned
startDevServerWithoutProcess(packageJson) ==
  IF packageJson = Null \/ startCommandOf(packageJson.scripts) = "null" THEN Null
  ELSE LET scriptContent == packageJson.scripts[startCommandOf(packageJson.scripts)]
           port == IF portMatch(scriptContent) # Undefined
                   THEN parseInt(portMatch(scriptContent)[1]) ELSE 3000
       IN [process |-> Null, command |-> startCommandOf(packageJson.scripts),
           port |-> port, url |-> <<"http://localhost:", port>>]

\* startDevServer(directoryPath) for the package.json of the directory (Null
\* when it cannot be read or parsed): null, or the server it has started
\* with exec
startDevServer(packageJson) ==
  IF packageJson = Null \/ startCommandOf(packageJson.scripts) = "null" THEN Null
  ELSE LET scriptContent == packageJson.scripts[startCommandOf(packageJson.scripts)]
           port == IF portMatch(scriptContent) # Undefined
                   THEN parseInt(portMatch(scriptContent)[1]) ELSE 3000
       IN [process |-> [child |-> TRUE], command |-> startCommandOf(packageJson.scripts),
           port |-> port, url |-> <<"http://localhost:", port>>]

\* steps 5 to 7 of analyzeJsProject on the rendered page
projectAnalysis(renderedPage, techStack) ==
  LET result == staticAnalyzeHtml(renderedPage.html, renderedPage.url)
      isReact == includes(techStack.framework, <<"R", "e", "a", "c", "t">>)
      isVue == includes(techStack.framework, <<"V", "u", "e">>)
      csr == techStack.rendering = "CSR (Client-side rendering)"
      extra ==
        IF techStack.framework = << >> THEN << >>
        ELSE (IF isReact /\ ~\E i \in DOMAIN techStack.seoTools : techStack.seoTools[i] = "React Helmet"
              THEN <<"Consider using React Helmet for better meta tag management">> ELSE << >>)
             \o (IF csr
                 THEN <<"Consider implementing server-side rendering (SSR) or static site generation (SSG) for better SEO">>
                      \o (IF isReact
                          THEN <<"Next.js provides built-in SSR/SSG capabilities for React applications">>
                          ELSE IF isVue
                          THEN <<"Nuxt.js provides built-in SSR/SSG capabilities for Vue applications">>
                          ELSE << >>)
                 ELSE << >>)
  IN [result EXCEPT !.recommendations = @ \o extra]
     @@ [techStack |-> techStack, isPreRendered |-> TRUE]

\* the finally block: server.process.kill() when there is a handle; kill
\* does nothing to a process that has exited
afterFinally(p) ==
  IF p.server # Null /\ p.server.process # Null
  THEN [p EXCEPT !.kills = @ + 1,
                 !.process = IF @ = "running" THEN "killed" ELSE @]
  ELSE p

ScriptSets ==
  {Null,
   [name \in {"test"} |-> <<"j", "e", "s", "t">>],
   [name \in {"dev"} |-> <<"v", "i", "t", "e", " ", "-", "-", "p", "o", "r", "t", " ", "5", "1", "7", "3">>],
   [name \in {"start", "serve"} |-> IF name = "start" THEN <<"r", "e", "a", "c", "t", "-", "s", "c", "r", "i", "p", "t", "s", " ", "s", "t", "a", "r", "t">>
                                    ELSE <<"s", "e", "r", "v", "e", " ", "-", "-", "p", "o", "r", "t", "=", "8", "0", " ", "-", "s">>],
   [name \in {"serve"} |-> <<"s", "e", "r", "v", "e", " ", "-", "-", "p", "o", "r", "t", "e", "r">>]}

DependencySets ==
  {{}, {"react"}, {"react", "react-helmet", "webpack"}, {"vue", "vue-router"},
   {"react", "next", "next-seo"}}

Projects ==
  {[pc |-> "detect", packageJson |-> j, files |-> f, appFile |-> FALSE,
    techStack |-> Null, server |-> Null, process |-> "none", kills |-> 0,
    outcome |-> Pending] :
     j \in {Null} \cup {[scripts |-> s, deps |-> d] : s \in ScriptSets, d \in DependencySets},
     f \in {Undefined, Some({"index.html"}), Some({"index.html", "nuxt.config.js"})}}

InitProject ==
  /\ project \in Projects
  /\ analyzerIdle /\ batchIdle /\ logIdle /\ lookupIdle /\ stemIdle

projectFrame == UNCHANGED <<analyzerVars, batchVars, logVars, lookupVars, stemVars>>

\* 1. await detectTechStack(directoryPath)
DetectTechStack ==
  /\ project.pc = "detect"
  /\ \E appFile \in BOOLEAN :
       project' = [project EXCEPT
         !.pc = "start",
         !.appFile = appFile,
         !.techStack = detectTechStack(IF project.packageJson = Null THEN Undefined
                                       ELSE Some(project.packageJson.deps),
                                       project.files, appFile)]
  /\ projectFrame

\* 2. await startDevServer(directoryPath); without a server the function
\* throws, and the finally block finds nothing to stop
StartDevServer ==
  /\ project.pc = "start"
  /\ LET server == startDevServer(project.packageJson)
     IN project' =
          IF server = Null
          THEN afterFinally([project EXCEPT
                 !.pc = "done",
                 !.outcome = Threw("Could not start development server")])
          ELSE [project EXCEPT !.pc = "wait", !.server = server, !.process = "running"]
  /\ projectFrame

\* the started command ends by itself
DevServerExits ==
  /\ project.process = "running"
  /\ project' = [project EXCEPT !.process = "exited"]
  /\ projectFrame

\* 3. the 10 s timer fires
ServerReady ==
  /\ project.pc = "wait"
  /\ project' = [project EXCEPT !.pc = "render"]
  /\ projectFrame

\* 4. await preRenderWithPuppeteer(server.url) is rejected: catch rethrows
\* and finally runs
PreRenderFails ==
  /\ project.pc = "render"
  /\ project' = afterFinally([project EXCEPT !.pc = "done", !.outcome = Threw("pre-render")])
  /\ projectFrame

\* 4. to 7. the page is rendered and analyzed; finally runs before the
\* analysis is returned
PreRenderAndAnalyze ==
  /\ project.pc = "render"
  /\ \E page \in {CompletePage, ShellPage} :
       LET renderedPage == [html |-> page, title |-> page.title, url |-> project.server.url]
       IN project' = afterFinally([project EXCEPT
            !.pc = "done",
            !.outcome = Returned(projectAnalysis(renderedPage, project.techStack))])
  /\ projectFrame

NextProject ==
  \/ DetectTechStack
  \/ StartDevServer
  \/ DevServerExits
  \/ ServerReady
  \/ PreRenderFails
  \/ PreRenderAndAnalyze

SpecProject == InitProject /\ [][NextProject]_vars

\* ---- normalizeWord ----

\* resolve(value) of a promise: only the first call settles it
resolve(promise, value) == IF promise = Pending THEN Returned(value) ELSE promise

\* what wordnet.lookup passes to its callback: nothing, no entry, an entry
\* without lemma, an entry with one (here the word without its last letter)
LookupResults(word) ==
  {Undefined, Some(<< >>), Some(<<[lemma |-> << >>]>>), Some(<<[lemma |-> sliceEnd(word, 1)]>>)}

LookupWords ==
  {<<"c", "a", "t", "s">>, <<"c", "a", "r", "e", "s", "s", "e", "s">>, <<"p", "o", "n", "i", "e", "s">>, <<"t", "i", "e", "s">>, <<"c", "a", "r", "e", "s", "s">>, <<"f", "a", "c", "t", "s">>, <<"d", "o", "c", "s">>,
   <<"w", "a", "l", "k", "s">>, <<"g", "l", "a", "s", "s">>, <<"d", "o", "g", "s">>, <<"f", "l", "i", "e", "s">>, <<"b", "u", "g", "s">>, <<"m", "a", "p", "s">>, <<"r", "u", "n", "s">>}

\* after normalizeWord(word) has returned its promise: wordnet.lookup has
\* been called and nothing else has happened
InitLookup ==
  /\ lookup \in {[word |-> w, calledBack |-> FALSE, results |-> Undefined, timer |-> "none",
                  promise |-> Pending] : w \in LookupWords}
  /\ analyzerIdle /\ batchIdle /\ logIdle /\ projectIdle /\ stemIdle

lookupFrame == UNCHANGED <<analyzerVars, batchVars, logVars, projectVars, stemVars>>

\* WordNet invokes the callback of wordnet.lookup: the promise is resolved
\* with the lemma or with the stem, and then the 50 ms timer is set
LookupCallback ==
  /\ ~lookup.calledBack
  /\ \E results \in LookupResults(lookup.word) :
       lookup' = [lookup EXCEPT
         !.calledBack = TRUE,
         !.results = results,
         !.promise =
           IF results # Undefined /\ Len(results[1]) > 0 /\ NonEmpty(results[1][1].lemma)
           THEN resolve(@, results[1][1].lemma)
           ELSE resolve(@, stemWord(lookup.word)),
         !.timer = "set"]
  /\ lookupFrame

\* the timer fires: resolve(stemmer.stem(word))
TimeoutFires ==
  /\ lookup.timer = "set"
  /\ lookup' = [lookup EXCEPT !.timer = "fired",
                              !.promise = resolve(@, stemWord(lookup.word))]
  /\ lookupFrame

NextLookup == LookupCallback \/ TimeoutFires

SpecLookup == InitLookup /\ [][NextLookup]_vars

\* the event loop runs a timer that is set; nothing makes WordNet call back
SpecLookupFair == SpecLookup /\ WF_vars(TimeoutFires)
----------------------------------------------------------------------------
(* Properties                                                              *)

IsReturned(outcome) == outcome.status = "returned"
HasRun(outcome) == outcome.status # "pending"

\* the entries of a list that have impact k, in the order of the list
WithImpact(s, k) == SelectSeq(s, LAMBDA e : e.impact = k)

ImpactsOf(s) == {s[i].impact : i \in DOMAIN s}

ImpactNonIncreasing(s) ==
  \A i \in DOMAIN s : \A j \in DOMAIN s : i < j => s[i].impact >= s[j].impact

\* sorted holds the entries of emitted, by impact non-increasing, and entries
\* of equal impact are in the order in which they were emitted
StablySortedFrom(sorted, emitted) ==
  /\ Len(sorted) = Len(emitted)
  /\ ImpactNonIncreasing(sorted)
  /\ \A k \in ImpactsOf(emitted) : WithImpact(sorted, k) = WithImpact(emitted, k)

\* some entry is emitted before one of greater impact, and two different
\* entries of equal impact are emitted
NeedsSorting(emitted) ==
  /\ \E i \in DOMAIN emitted : \E j \in DOMAIN emitted :
       i < j /\ emitted[i].impact < emitted[j].impact
  /\ \E i \in DOMAIN emitted : \E j \in DOMAIN emitted :
       i < j /\ emitted[i].impact = emitted[j].impact /\ emitted[i] # emitted[j]

\* C1: the issues and the recommendations that analyzeHtml returns are each
\* ordered by impact non-increasing, and entries of equal impact keep the
\* order in which the checks emitted them.
C1_SortedByImpactStable ==
  IsReturned(analysis) =>
    /\ StablySortedFrom(analysis.value.issues, emittedIssues(html))
    /\ StablySortedFrom(analysis.value.recommendations, emittedRecommendations(html))

\* C1 witness: a returned analysis whose two lists both had to be reordered
\* and both hold different entries of equal impact.
C1_Witness ==
  /\ IsReturned(analysis)
  /\ NeedsSorting(emittedIssues(html))
  /\ NeedsSorting(emittedRecommendations(html))

ScoreNonIncreasing(s) ==
  \A i \in DOMAIN s : \A j \in DOMAIN s : i < j => s[i].score >= s[j].score

ScoreHalvesNonIncreasing(s) ==
  \A i \in DOMAIN s : \A j \in DOMAIN s : i < j => s[i].scoreHalves >= s[j].scoreHalves

\* C2: detectTargetKeywords returns at most 5 single-word and at most 5
\* phrase candidates, each list by score non-increasing, each made of scored
\* candidates, and no candidate left out of a list has a higher score than
\* one kept in it.
C2_TopFiveByScore ==
  IsReturned(keywordAnalysis) =>
    LET kept == keywordAnalysis.value.singleWords
        keptPhrases == keywordAnalysis.value.phrases
        all == Range(scoredWordsOf(html, html.title, html.metaDescription))
        allPhrases == Range(scoredPhrasesOf(html, html.title, html.metaDescription))
    IN /\ Len(kept) <= 5
       /\ Len(keptPhrases) <= 5
       /\ ScoreNonIncreasing(kept)
       /\ ScoreHalvesNonIncreasing(keptPhrases)
       /\ Range(kept) \subseteq all
       /\ Range(keptPhrases) \subseteq allPhrases
       /\ \A out \in all \ Range(kept) : \A top \in Range(kept) : out.score <= top.score
       /\ \A out \in allPhrases \ Range(keptPhrases) :
            \A top \in Range(keptPhrases) : out.scoreHalves <= top.scoreHalves

\* C2 witness: a returned result for a document with more than 5 candidates
\* of either kind, whose lists hold candidates of different scores.
C2_Witness ==
  /\ IsReturned(keywordAnalysis)
  /\ Len(scoredWordsOf(html, html.title, html.metaDescription)) > 5
  /\ Len(scoredPhrasesOf(html, html.title, html.metaDescription)) > 5
  /\ Len(keywordAnalysis.value.singleWords) = 5
  /\ Len(keywordAnalysis.value.phrases) = 5
  /\ keywordAnalysis.value.singleWords[1].score > keywordAnalysis.value.singleWords[5].score
  /\ keywordAnalysis.value.phrases[1].scoreHalves
       > keywordAnalysis.value.phrases[5].scoreHalves

\* C4: the density of every returned keyword candidate is between 0 and 100
\* percent: the count of a single-word candidate is at most the total word
\* count, the count of a phrase candidate at most the total word count minus
\* 1, and neither denominator is zero when a candidate has it.
C4_DensityWithinBounds ==
  IsReturned(keywordAnalysis) =>
    LET words == bodyWordsOf(html)
        wordCounts == wordCountsOf(words)
        phraseCounts == phraseCountsOf(words)
        kept == keywordAnalysis.value.singleWords
        keptPhrases == keywordAnalysis.value.phrases
    IN /\ \A i \in DOMAIN kept : kept[i].density \in 0..10000
       /\ \A i \in DOMAIN keptPhrases : keptPhrases[i].density \in 0..10000
       /\ \A i \in DOMAIN wordCounts :
            totalWordsOf(words) # 0 /\ wordCounts[i].count <= totalWordsOf(words)
       /\ \A i \in DOMAIN phraseCounts :
            totalWordsOf(words) - 1 # 0
            /\ phraseCounts[i].count <= totalWordsOf(words) - 1

\* C4 witness: a returned result in which a single-word candidate and a
\* phrase candidate both reach 100 percent.
C4_Witness ==
  /\ IsReturned(keywordAnalysis)
  /\ \E i \in DOMAIN keywordAnalysis.value.singleWords :
       keywordAnalysis.value.singleWords[i].density = 10000
  /\ \E i \in DOMAIN keywordAnalysis.value.phrases :
       keywordAnalysis.value.phrases[i].density = 10000

\* the number of entries of a list of issues with the given message text
CountMessage(issues, text) ==
  Cardinality({i \in DOMAIN issues : issues[i].message.text = text})

\* the position of the first issue with the given message text, 0 if none
PositionOf(issues, text) ==
  IF \E i \in DOMAIN issues : issues[i].message.text = text
  THEN CHOOSE i \in DOMAIN issues :
         /\ issues[i].message.text = text
         /\ \A j \in 1..(i - 1) : issues[j].message.text # text
  ELSE 0

MissingTitle == "Missing page title"
TitleTooShort == "Title is too short (n chars) - aim for 50-60 characters"
TitleTooLong == "Title length (n chars) exceeds recommended maximum of 60 characters"
MissingMetaDescription == "Missing meta description"
NoIndexMessage == "Page has noindex directive - it will not appear in search results"
NoFollowMessage == "Page has nofollow directive - search engines will not follow links"
IncompleteMessage ==
  "WARNING: This is a client-side rendered React app - this analysis is INCOMPLETE"
InvalidJsonLd == "Invalid JSON-LD schema"

\* the title findings of a returned analysis of a document without a title
MissingTitleReported(value) ==
  /\ \E i \in DOMAIN value.issues :
       value.issues[i] = Issue("high", MissingTitle, 0, << >>, 90, "Meta Tags")
  /\ CountMessage(value.issues, MissingTitle) = 1
  /\ CountMessage(value.issues, TitleTooShort) = 0
  /\ CountMessage(value.issues, TitleTooLong) = 0
  /\ Cardinality({i \in DOMAIN value.recommendations :
                    value.recommendations[i].text = "Add a descriptive page title"
                    /\ value.recommendations[i].impact = 90}) = 1

\* C5: for every document without a title, analyzeHtml emits exactly one
\* issue about the title, of severity high, area "Meta Tags" and impact 90,
\* with exactly one matching recommendation of impact 90.
C5_MissingTitleOneHighIssue ==
  (HasRun(analysis) /\ html.title = << >>) =>
    (IsReturned(analysis) /\ MissingTitleReported(analysis.value))

\* C5, on the calls that return: every returned analysis of a document
\* without a title reports the missing title exactly once.
C5_WhenReturned ==
  (IsReturned(analysis) /\ html.title = << >>) => MissingTitleReported(analysis.value)

\* the findings of a returned analysis for a long title and no description
LongTitleNoDescriptionReported(value) ==
  /\ \E i \in DOMAIN value.issues :
       /\ value.issues[i].message.text = TitleTooLong
       /\ value.issues[i].severity = "medium"
       /\ value.issues[i].impact = 70
  /\ \E i \in DOMAIN value.issues :
       value.issues[i] = Issue("high", MissingMetaDescription, 0, << >>, 80, "Meta Tags")
  /\ PositionOf(value.issues, MissingMetaDescription) < PositionOf(value.issues, TitleTooLong)
  /\ value.issues[1].severity = "high"

IsLongTitleNoDescription(doc) ==
  /\ Len(doc.title) = 70
  /\ doc.metaDescription = Undefined
  /\ doc.robots = << >>
  /\ ~isReactAppOf(doc)

\* C6: for a document with a title of 70 characters, no meta description, no
\* robots directive and no client-render signal, the result contains a
\* medium title-too-long issue of impact 70 and a high missing-description
\* issue of impact 80, the high one before the medium one, and the first
\* issue is of severity high.
C6_LongTitleNoDescription ==
  (HasRun(analysis) /\ IsLongTitleNoDescription(html)) =>
    (IsReturned(analysis) /\ LongTitleNoDescriptionReported(analysis.value))

\* C6, on the calls that return.
C6_WhenReturned ==
  (IsReturned(analysis) /\ IsLongTitleNoDescription(html)) =>
    LongTitleNoDescriptionReported(analysis.value)

\* the findings of a returned analysis for robots content noindex,nofollow
NoIndexNoFollowReported(value) ==
  LET noindex == PositionOf(value.issues, NoIndexMessage)
      nofollow == PositionOf(value.issues, NoFollowMessage)
  IN /\ noindex > 0
     /\ nofollow > 0
     /\ value.issues[noindex].severity = "critical"
     /\ value.issues[nofollow].severity = "high"
     /\ noindex < nofollow
     /\ \A i \in DOMAIN value.issues :
          value.issues[i].severity # "critical" => noindex < i

IsNoIndexNoFollow(doc) == robotsContentOf(doc) = Some(<<"n", "o", "i", "n", "d", "e", "x", ",", "n", "o", "f", "o", "l", "l", "o", "w">>)

\* C7: for every document whose robots meta tag content is
\* "noindex,nofollow", the issues contain a critical noindex issue and a high
\* nofollow issue, and the noindex issue is ranked before the nofollow issue
\* and before every issue that is not critical.
C7_NoIndexBeforeNoFollow ==
  (HasRun(analysis) /\ IsNoIndexNoFollow(html)) =>
    (IsReturned(analysis) /\ NoIndexNoFollowReported(analysis.value))

\* C7, on the calls that return.
C7_WhenReturned ==
  (IsReturned(analysis) /\ IsNoIndexNoFollow(html)) =>
    NoIndexNoFollowReported(analysis.value)

\* the findings of a returned analysis for a document with a #root element
IncompleteReportedFirst(value) ==
  /\ value.isReactApp
  /\ value.issues # << >>
  /\ value.issues[1] = Issue("critical", IncompleteMessage, 0, << >>, 100,
                             "Analysis Limitations")

\* C8: for every document with an element of id "root" the result reports
\* the page as client-rendered and the critical "analysis is INCOMPLETE"
\* issue is the first of the sorted issues, whatever else is reported.
C8_IncompleteIssueFirst ==
  (HasRun(analysis) /\ html.rootElements > 0) =>
    (IsReturned(analysis) /\ IncompleteReportedFirst(analysis.value))

\* C8, on the calls that return.
C8_WhenReturned ==
  (IsReturned(analysis) /\ html.rootElements > 0) =>
    IncompleteReportedFirst(analysis.value)

\* one block that parses and one that does not, in either order
IsOneValidOneMalformed(doc) ==
  /\ Len(doc.jsonLd) = 2
  /\ Len(SelectSeq(doc.jsonLd, jsonParses)) = 1

\* the findings of a returned analysis for one valid and one malformed block
OneInvalidJsonLdReported(value) ==
  /\ CountMessage(value.issues, InvalidJsonLd) = 1
  /\ \E i \in DOMAIN value.issues :
       value.issues[i] = Issue("high", InvalidJsonLd, 0, << >>, 70, "Structured Data")

\* C10: for a document with one valid and one malformed JSON-LD block the
\* analysis completes, and exactly one high "Invalid JSON-LD schema" issue
\* of impact 70 is emitted.
C10_MalformedJsonLdOneIssue ==
  (HasRun(analysis) /\ IsOneValidOneMalformed(html)) =>
    (IsReturned(analysis) /\ OneInvalidJsonLdReported(analysis.value))

\* C10, on the calls that return; and analyzeHtml throws only where
\* detectTargetKeywords throws, whatever the JSON-LD blocks are.
C10_WhenReturned ==
  /\ (IsReturned(analysis) /\ IsOneValidOneMalformed(html)) =>
       OneInvalidJsonLdReported(analysis.value)
  /\ HasRun(analysis) =>
       (IsReturned(analysis)
          <=> IsReturned(detectTargetKeywords(html, html.title, html.metaDescription)))

\* the document of the example: title "Cat Facts" and, with no heading, the
\* body text "the cat sat on the mat the cat ran"
IsCatExample(doc) ==
  /\ doc.title = CatFacts
  /\ doc.text = CatText
  /\ doc.h1 = << >>
  /\ doc.h2 = << >>

NoPlacement(candidate) ==
  ~candidate.inTitle /\ ~candidate.inMetaDescription /\ ~candidate.inH1 /\ ~candidate.inH2

\* candidate i occurs more often than candidate j and matches a title token,
\* and candidate j matches no title, description or heading token
OutranksByTitle(counts, scored, i, j) ==
  /\ counts[i].count > counts[j].count
  /\ scored[i].inTitle
  /\ NoPlacement(scored[j])

NoStructuredData == "No structured data (schema.org) found"

NoPhraseCandidate(doc) == phraseCountsOf(bodyWordsOf(doc)) = << >>

\* the body text is empty: the document has no heading and no other text
EmptyBody(doc) == bodyTextOf(doc) = << >>

\* C12: for a document whose body text is empty or yields no phrase
\* candidate, detectTargetKeywords does not throw: it returns an empty phrase
\* list (the primary phrase being the first entry of that list, there is
\* none) and, for an empty body, an empty single-word list.
C12_NoPhraseReturnsEmpty ==
  (HasRun(keywordAnalysis) /\ NoPhraseCandidate(html)) =>
    /\ IsReturned(keywordAnalysis)
    /\ keywordAnalysis.value.phrases = << >>
    /\ EmptyBody(html) => keywordAnalysis.value.singleWords = << >>

\* C12, what the code does: the call throws exactly when the body text
\* yields no phrase candidate.
C12_ThrowsWithoutPhrase ==
  HasRun(keywordAnalysis) => (IsReturned(keywordAnalysis) <=> ~NoPhraseCandidate(html))

\* the stem of a single-word candidate matches a stemmed token of the texts
MatchesToken(stemmed, tokens) == \E i \in DOMAIN tokens : simpleStem(tokens[i]) = stemmed

\* the four placement boosts of a stem: title 10, description 5, H1 8, H2 6
PlacementBoosts(doc, stemmed) ==
  (IF MatchesToken(stemmed, titleWordsOf(doc.title)) THEN 10 ELSE 0)
  + (IF MatchesToken(stemmed, metaWordsOf(doc.metaDescription)) THEN 5 ELSE 0)
  + (IF MatchesToken(stemmed, headingWordsOf(doc.h1)) THEN 8 ELSE 0)
  + (IF MatchesToken(stemmed, headingWordsOf(doc.h2)) THEN 6 ELSE 0)

\* every returned single-word candidate is a counted stem of the body whose
\* score is its count plus the four placement boosts plus extra(stem)
SingleWordScoresAre(extra(_)) ==
  IsReturned(keywordAnalysis) =>
    LET counts == wordCountsOf(bodyWordsOf(html))
        kept == keywordAnalysis.value.singleWords
    IN \A i \in DOMAIN kept :
         \E j \in DOMAIN counts :
           /\ counts[j].original = kept[i].word
           /\ kept[i].score = counts[j].count + PlacementBoosts(html, counts[j].key)
                              + extra(counts[j].key)

\* C13, as stated: the score of every single-word candidate is its stem
\* frequency plus 10 for a title match, 5 for a description match, 8 for an
\* H1 match and 6 for an H2 match, and nothing else.
C13_ScoreIsCountPlusFourBoosts == SingleWordScoresAre(LAMBDA stemmed : 0)

\* 10 if the stem matches a token of any of the four placements
AnyPlacementBoost(stemmed) == IF PlacementBoosts(html, stemmed) > 0 THEN 10 ELSE 0

\* C13, amended: the score is the stem frequency plus the four additive
\* placement boosts plus a further 10 when the stem matches a token of the
\* title, the description, an H1 or an H2 at all.
C13_ScoreHasAnyPlacementBoost == SingleWordScoresAre(AnyPlacementBoost)

\* C13 witness: a returned result with a candidate that matches the title and
\* another placement and a candidate that matches none.
C13_Witness ==
  /\ IsReturned(keywordAnalysis)
  /\ \E i \in DOMAIN keywordAnalysis.value.singleWords :
       LET e == keywordAnalysis.value.singleWords[i]
       IN e.inTitle /\ (e.inMetaDescription \/ e.inH1 \/ e.inH2)
  /\ \E i \in DOMAIN keywordAnalysis.value.singleWords :
       LET e == keywordAnalysis.value.singleWords[i]
       IN ~e.inTitle /\ ~e.inMetaDescription /\ ~e.inH1 /\ ~e.inH2

\* text, lowercased, contains the characters of word one after the other
ContainsWord(text, word) ==
  \E k \in 0..(Len(text) - Len(word)) :
    \A n \in DOMAIN word : LowerChar(text[k + n]) = word[n]

\* the two component words of a normalized phrase: the stems around its space
ComponentWords(key) ==
  LET sp == CHOOSE k \in DOMAIN key : key[k] = " "
  IN {SubSeq(key, 1, sp - 1), SubSeq(key, sp + 1, Len(key))}

ContainsAll(text, key) == \A w \in ComponentWords(key) : ContainsWord(text, w)

SomeRobotsTagContains(doc, directive) ==
  \E i \in DOMAIN doc.robots :
    doc.robots[i] # Undefined /\ ContainsWord(doc.robots[i][1], directive)

\* the issues of the list with the given severity, impact and message text
CountIssue(issues, severity, impact, text) ==
  Cardinality({i \in DOMAIN issues :
                 /\ issues[i].severity = severity
                 /\ issues[i].impact = impact
                 /\ issues[i].message.text = text})

\* C16: a returned analysis holds a critical noindex issue of impact 100 if
\* and only if some robots meta tag of the document contains noindex, and a
\* high nofollow issue of impact 85 if and only if some robots meta tag
\* contains nofollow, whichever robots meta tag it is.
C16_AnyRobotsTagCounts ==
  IsReturned(analysis) =>
    LET issues == analysis.value.issues
    IN /\ CountIssue(issues, "critical", 100, NoIndexMessage) > 0
            <=> SomeRobotsTagContains(html, <<"n", "o", "i", "n", "d", "e", "x">>)
       /\ CountIssue(issues, "high", 85, NoFollowMessage) > 0
            <=> SomeRobotsTagContains(html, <<"n", "o", "f", "o", "l", "l", "o", "w">>)

\* C16, what the code does: only the first robots meta tag is read.
C16_FirstRobotsTagCounts ==
  IsReturned(analysis) =>
    LET issues == analysis.value.issues
        first == IF html.robots = << >> THEN << >> ELSE <<html.robots[1]>>
    IN /\ CountIssue(issues, "critical", 100, NoIndexMessage) > 0
            <=> SomeRobotsTagContains([robots |-> first], <<"n", "o", "i", "n", "d", "e", "x">>)
       /\ CountIssue(issues, "high", 85, NoFollowMessage) > 0
            <=> SomeRobotsTagContains([robots |-> first], <<"n", "o", "f", "o", "l", "l", "o", "w">>)

TitleMessages == {MissingTitle, TitleTooShort, TitleTooLong}

\* the issues about the title, in the order of the list
TitleIssues(issues) == SelectSeq(issues, LAMBDA e : e.message.text \in TitleMessages)

\* the list holds one entry, with this severity, impact and message text
IsOnly(issues, severity, impact, text) ==
  /\ Len(issues) = 1
  /\ issues[1].severity = severity
  /\ issues[1].impact = impact
  /\ issues[1].message.text = text

NoH1 == "No H1 heading found"
MultipleH1 == "Multiple H1 headings found (n)"
H2WithoutH1 == "H2 headings found without an H1 heading"

\* the issues about the headings, in the order of the list
HeadingIssues(issues) ==
  SelectSeq(issues, LAMBDA e : e.message.text \in {NoH1, MultipleH1, H2WithoutH1})

\* the heading findings the rules give for the heading counts of a document
HeadingsReported(doc, issues) ==
  LET found == HeadingIssues(issues)
      h1Count == Len(doc.h1)
      h2Count == Len(doc.h2)
  IN /\ h1Count = 0 <=> CountIssue(found, "high", 85, NoH1) = 1
     /\ h1Count > 1 <=> CountIssue(found, "medium", 65, MultipleH1) = 1
     /\ (h1Count = 0 /\ h2Count > 0) <=> CountIssue(found, "medium", 70, H2WithoutH1) = 1
     /\ h1Count = 1 => found = << >>
     /\ Len(found) = (IF h1Count # 1 THEN 1 ELSE 0)
                     + (IF h1Count = 0 /\ h2Count > 0 THEN 1 ELSE 0)

\* C18: for every document analyzeHtml emits the heading issues of its
\* heading counts: a high issue of impact 85 for no H1, a medium issue of
\* impact 65 for more than one H1, never both, a further medium issue of
\* impact 70 for an H2 without an H1, and no heading issue for exactly one H1.
C18_HeadingIssues ==
  HasRun(analysis) =>
    (IsReturned(analysis) /\ HeadingsReported(html, analysis.value.issues))

\* C18, on the calls that return.
C18_WhenReturned ==
  IsReturned(analysis) => HeadingsReported(html, analysis.value.issues)

MissingAlt == "Image missing alt text: arg"

\* one medium issue of impact 60 per image of lacking, in document order, and
\* the one rollup recommendation exactly when lacking is not empty
ImagesReported(lacking, value) ==
  LET found == SelectSeq(value.issues, LAMBDA e : e.message.text = MissingAlt)
  IN /\ Len(found) = Len(lacking)
     /\ \A i \in DOMAIN found :
          /\ found[i].severity = "medium"
          /\ found[i].impact = 60
          /\ found[i].message.arg =
               (IF lacking[i].src = Undefined THEN <<"u", "n", "k", "n", "o", "w", "n", " ", "i", "m", "a", "g", "e">> ELSE lacking[i].src[1])
     /\ Cardinality({i \in DOMAIN value.recommendations :
                       value.recommendations[i].text = "Add alt text to all images"})
          = (IF Len(lacking) > 0 THEN 1 ELSE 0)

MissingContextOrType == "Invalid schema: missing @context or @type"

\* the JSON-LD blocks that parse and lack @context or @type
BlocksLackingKeys(doc) ==
  SelectSeq(doc.jsonLd, LAMBDA text : jsonParses(text) /\ ~HasContextAndType(text))

\* C20: in a returned analysis every JSON-LD block that parses but lacks
\* @context or @type has its high invalid-schema issue, and the block is
\* counted as a parsed schema block.
C20_RequiredKeysChecked ==
  IsReturned(analysis) =>
    LET issues == analysis.value.issues
    IN /\ Cardinality({i \in DOMAIN issues :
                         /\ issues[i].severity = "high"
                         /\ issues[i].message.text = MissingContextOrType})
            = Len(BlocksLackingKeys(html))
       /\ analysis.value.schemaCount = Len(SelectSeq(html.jsonLd, jsonParses))

\* C20, what the code does: a block that parses gives no issue whatever its
\* keys are, while the schema validation of the server reports it.
C20_OnlyWellFormednessChecked ==
  /\ IsReturned(analysis) =>
       /\ CountMessage(analysis.value.issues, MissingContextOrType) = 0
       /\ analysis.value.schemaCount = Len(SelectSeq(html.jsonLd, jsonParses))
  /\ Cardinality({i \in DOMAIN serverSchemaIssues(html) :
                    serverSchemaIssues(html)[i].message = MissingContextOrType})
       = Len(BlocksLackingKeys(html))

\* the keyword result is finished: its lists can be read from the object
IsFinishedKeywordResult(obj) ==
  HasProperty(obj, "singleWords") /\ HasProperty(obj, "phrases")

\* C15: when the analyzeHtml of the analyzer module has returned, the
\* keywordAnalysis field of its result is the finished keyword result, whose
\* lists the formatter reads, and the formatter called on the result returns.
C15_KeywordAnalysisIsFinished ==
  /\ IsReturned(analysis) => IsFinishedKeywordResult(analysis.value.keywordAnalysis)
  /\ HasRun(formatted) => IsReturned(formatted)

\* C15, what the code does: the field is the Promise that the async
\* detectTargetKeywords returned, which holds the finished result out of
\* reach of a property read, and formatAnalysisResult throws on it.
C15_KeywordAnalysisIsPromise ==
  /\ IsReturned(analysis) =>
       /\ analysis.value.keywordAnalysis =
            Promise("fulfilled", asyncKeywordResult(html, html.title, html.metaDescription))
       /\ ~IsFinishedKeywordResult(analysis.value.keywordAnalysis)
  /\ HasRun(formatted) => formatted = Threw("TypeError")

\* the document has an element matching #root, #app or [data-reactroot], or
\* an empty div together with a script whose src contains react, bundle or chunk
ClientRenderSignal(doc) ==
  \/ doc.rootElements + doc.appElements + doc.reactrootElements > 0
  \/ /\ doc.emptyDivs > 0
     /\ \E i \in DOMAIN doc.scripts :
          /\ doc.scripts[i] # Undefined
          /\ \E name \in {<<"r", "e", "a", "c", "t">>, <<"b", "u", "n", "d", "l", "e">>, <<"c", "h", "u", "n", "k">>} :
               ContainsWord(doc.scripts[i][1], name)

ServerSideRendering == "Switch to server-side rendering for better SEO"
ViewSource ==
  "For accurate analysis, view your page source and analyze what search engines actually see"

CountText(recommendations, text) ==
  Cardinality({i \in DOMAIN recommendations : recommendations[i].text = text})

\* the flag, the confidence score and the warning of a returned analysis are
\* those of the client-render signal of the document
ClientRenderReported(doc, value) ==
  LET n == IF ClientRenderSignal(doc) THEN 1 ELSE 0
  IN /\ value.isReactApp = ClientRenderSignal(doc)
     /\ value.confidenceScore = (IF ClientRenderSignal(doc) THEN 40 ELSE 100)
     /\ CountIssue(value.issues, "critical", 100, IncompleteMessage) = n
     /\ CountMessage(value.issues, IncompleteMessage) = n
     /\ CountText(value.recommendations, ServerSideRendering) = n
     /\ CountText(value.recommendations, ViewSource) = n

\* C21: for every document analyzeHtml reports the client-render flag of its
\* mount points and scripts; when the flag is true the confidence score is 40
\* and the critical "analysis incomplete" issue and the server-side-rendering
\* and view-source recommendations are emitted, and when it is false the
\* score is 100 and none of them is emitted.
C21_ClientRenderFlag ==
  HasRun(analysis) => (IsReturned(analysis) /\ ClientRenderReported(html, analysis.value))

\* C21, on the calls that return.
C21_WhenReturned ==
  IsReturned(analysis) => ClientRenderReported(html, analysis.value)

\* ---- C22 ----

\* the per-document results of a response, each as the file it is for
PerDocument ==
  IF batch.handler = "codebase"
  THEN [i \in DOMAIN batch.response.value.results |-> batch.response.value.results[i].filePath]
  ELSE [i \in DOMAIN batch.response.value.files |-> batch.response.value.files[i].pageIdentifier]

Answered == batch # Idle /\ batch.response # Pending /\ Len(batch.htmlFiles) > 0

SubmittedFiles == [file \in DOMAIN batch.htmlFiles |-> file]

Readable(file) == batch.htmlFiles[file] # Unreadable

ReadableFiles == SelectSeq(SubmittedFiles, Readable)

\* C22, as stated: a batch answer holds one per-document result for every
\* submitted document, in the order of submission, also when the documents
\* are read concurrently or one of them cannot be read.
C22_OneResultPerSubmittedDocument ==
  Answered => /\ batch.response.status = "returned"
              /\ PerDocument = SubmittedFiles

\* C22, amended: a batch answer holds one per-document result for every
\* submitted document that could be read, in the order of submission,
\* whatever the order in which concurrent reads finish; the directory loop of
\* seo-mcp-server.js leaves an unreadable document out, and the static server
\* and /analyze-codebase answer the request with an error and no results.
C22_OneResultPerReadDocument ==
  Answered =>
    IF batch.handler = "directory" \/ ReadableFiles = SubmittedFiles
    THEN batch.response.status = "returned" /\ PerDocument = ReadableFiles
    ELSE batch.response.status = "threw"

\* three files read concurrently, the last one finishing first
C22_Witness ==
  /\ Answered
  /\ batch.handler = "codebase"
  /\ batch.response.status = "returned"
  /\ batch.settled = <<3, 1, 2>>

\* ---- C23 ----

Summarised == batch # Idle /\ batch.handler # "codebase" /\ IsReturned(batch.response)
              /\ Len(batch.htmlFiles) > 0

\* the severity totals of the report
ReportedCounts ==
  IF batch.handler = "directory"
  THEN batch.response.value.issueSummary
  ELSE batch.response.value.issuesSummary

\* the places of the issues of the analyzed documents: document and position
IssuePlaces ==
  {<<i, j>> \in (1..MaxFiles) \X (1..20) :
     i \in DOMAIN batch.results /\ j \in DOMAIN batch.results[i].issues}

IssuesOfSeverity(severity) ==
  Cardinality({p \in IssuePlaces : batch.results[p[1]].issues[p[2]].severity = severity})

RECURSIVE SumOver(_, _)
SumOver(counts, keys) ==
  IF keys = {} THEN 0
  ELSE LET k == CHOOSE x \in keys : TRUE IN counts[k] + SumOver(counts, keys \ {k})

CountsSumToTotal ==
  SumOver(ReportedCounts, DOMAIN ReportedCounts) = Cardinality(IssuePlaces)

\* C23, as stated: the report holds a count for each of critical, high,
\* medium, low and info, each the number of issues of that severity in the
\* analyzed documents, and the counts sum to the number of issues.
C23_CountForEachOfFiveSeverities ==
  Summarised =>
    /\ \A severity \in {"critical", "high", "medium", "low", "info"} :
         /\ severity \in DOMAIN ReportedCounts
         /\ ReportedCounts[severity] = IssuesOfSeverity(severity)
    /\ CountsSumToTotal

\* C23, amended: the report holds a count for each of high, medium, low and
\* info (seo-mcp-server.js) or high, medium and low (static server) and none
\* for critical; each is the number of issues of that severity in the
\* analyzed documents, and the counts sum to the number of issues.
C23_CountForEachReportedSeverity ==
  Summarised =>
    /\ DOMAIN ReportedCounts = IF batch.handler = "directory"
                               THEN {"high", "medium", "low", "info"}
                               ELSE {"high", "medium", "low"}
    /\ \A severity \in DOMAIN ReportedCounts :
         ReportedCounts[severity] = IssuesOfSeverity(severity)
    /\ CountsSumToTotal

\* a report over pages with several issues of each reported severity
C23_Witness ==
  /\ Summarised
  /\ batch.handler = "directory"
  /\ Len(batch.results) = 3
  /\ ReportedCounts["high"] >= 4
  /\ ReportedCounts["low"] >= 4
  /\ ReportedCounts["info"] >= 2

\* ---- C24 ----

\* the rule table of the specification, longest ending first
RuleTable == <<<<"m", "e", "n", "t">>, <<"t", "i", "o", "n">>, <<"i", "n", "g">>, <<"e", "d">>, <<"e", "r">>, <<"l", "y">>, <<"e", "s">>, <<"s">>>>

MatchingRules(word) == {i \in DOMAIN RuleTable : endsWith(word, RuleTable[i])}

\* the first matching rule applied once
TableStem(word) ==
  IF MatchingRules(word) = {} THEN word
  ELSE LET first == CHOOSE i \in MatchingRules(word) : \A j \in MatchingRules(word) : i <= j
       IN SubSeq(word, 1, Len(word) - Len(RuleTable[first]))

Stemmed == stem # Idle /\ IsReturned(stem.result)

\* C24: simpleStem returns the lower-cased word as it is or without exactly
\* one ending of the table, and its result is that of the table in which
\* only the first matching rule, longest ending first, is applied.
C24_StemIsFirstMatchOfTable ==
  Stemmed =>
    LET word == toLowerCase(stem.word)
        result == stem.result.value
    IN /\ result = TableStem(word)
       /\ \/ result = word
          \/ \E i \in DOMAIN RuleTable : word = result \o RuleTable[i]

\* a word with two endings of the table, the first of them -es, loses one
C24_Witness ==
  /\ Stemmed
  /\ stem.word = <<"b", "o", "x", "i", "n", "g", "e", "s">>
  /\ stem.result.value = <<"b", "o", "x", "i", "n", "g">>

\* ---- C25 ----

\* the cleaned body words that are counted, in the order of the body
CountedWords ==
  SelectSeq([i \in DOMAIN bodyWordsOf(html) |-> clean(bodyWordsOf(html)[i])], IsKeywordWord)

FirstSeen(form) == CHOOSE i \in DOMAIN CountedWords : 
                     CountedWords[i] = form /\ \A j \in 1..(i - 1) : CountedWords[j] # form

\* form is the most frequent of the counted words with its stem, and of the
\* equally frequent ones the first in the body
IsMostFrequentForm(form) ==
  /\ \E i \in DOMAIN CountedWords : CountedWords[i] = form
  /\ \A i \in DOMAIN CountedWords :
       LET other == CountedWords[i]
       IN simpleStem(other) = simpleStem(form) /\ other # form =>
            \/ Occurrences(CountedWords, other) < Occurrences(CountedWords, form)
            \/ /\ Occurrences(CountedWords, other) = Occurrences(CountedWords, form)
               /\ FirstSeen(form) < FirstSeen(other)

\* C25: the surface form of every single-word candidate is the cleaned body
\* word that is most frequent among the words with its stem, the first in
\* the body among equally frequent ones.
C25_SurfaceFormIsMostFrequent ==
  IsReturned(keywordAnalysis) =>
    \A i \in DOMAIN keywordAnalysis.value.singleWords :
      IsMostFrequentForm(keywordAnalysis.value.singleWords[i].word)

\* ---- C26 ----

Placements == <<"title", "meta description", "H1 heading", "H2 headings">>

\* the placement flag of a phrase for the i-th placement
FlagOf(p, i) == <<p.inTitle, p.inMetaDescription, p.inH1, p.inH2>>[i]

\* the placements whose flag is false, each once, in the fixed order
GapsOf(p) ==
  LET gap(i) == IF FlagOf(p, i) THEN << >> ELSE <<Placements[i]>>
  IN gap(1) \o gap(2) \o gap(3) \o gap(4)

\* C26: the placement gaps of a result are those of title, meta description,
\* H1 and H2 whose flag is false for phrases[0], each once and in that
\* order; phrases[0] has the highest score and its surface form is the
\* reported primary phrase.
C26_GapsOfTopPhrase ==
  IsReturned(keywordAnalysis) =>
    LET result == keywordAnalysis.value
        top == result.phrases[1]
    IN /\ result.placementAnalysis.missingFrom = GapsOf(top)
       /\ result.placementAnalysis.primaryPhrase = top.phrase
       /\ result.keywordSummary.primaryPhrase = top.phrase
       /\ \A i \in DOMAIN result.phrases : result.phrases[i].scoreHalves <= top.scoreHalves

\* a top phrase found in the title and in an H2 only, ahead of another phrase
C26_Witness ==
  /\ IsReturned(keywordAnalysis)
  /\ Len(keywordAnalysis.value.phrases) >= 2
  /\ keywordAnalysis.value.phrases[1].scoreHalves > keywordAnalysis.value.phrases[2].scoreHalves
  /\ keywordAnalysis.value.placementAnalysis.missingFrom = <<"meta description", "H1 heading">>

\* ---- C27 ----

\* the last n entries of a list, all of it when it has no more
LastOf(list, n) ==
  IF Len(list) <= n THEN list ELSE [i \in 1..n |-> list[Len(list) - n + i]]

\* C27: every session holds at most 500 entries, and they are the most
\* recently received entries of the session in the order of arrival.
C27_SessionKeepsMostRecentLogs ==
  sessions # Idle =>
    \A sessionId \in DOMAIN sessions :
      /\ Len(sessions[sessionId].logs) <= 500
      /\ sessions[sessionId].logs = LastOf(received[sessionId], 500)

\* a session that has received more entries than it keeps, over two requests
C27_Witness ==
  /\ sessions # Idle
  /\ \E sessionId \in DOMAIN sessions :
       /\ Len(received[sessionId]) = 501 + 499
       /\ Len(sessions[sessionId].logs) = 500
       /\ sessions[sessionId].logs[1].content = <<1, 501>>
       /\ sessions[sessionId].firstSeen < sessions[sessionId].lastSeen

\* ---- C28 ----

LacksField(body) == body.logs = Undefined \/ ~Truthy(body.sessionId) \/ ~Truthy(body.url)

\* C28: a request whose body lacks logs, sessionId or url is answered with
\* status 400 and leaves the store as it was: no session created, no log
\* appended, no lastSeen updated.
C28_MissingFieldLeavesStore ==
  [][LacksField(res'.body) => res'.status = 400 /\ sessions' = sessions]_vars

\* a request without url for a session that exists has been refused
C28_Witness ==
  /\ res # Idle
  /\ res.status = 400
  /\ res.body.url = Undefined
  /\ res.body.logs # Undefined
  /\ Truthy(res.body.sessionId)
  /\ res.body.sessionId[1] \in DOMAIN sessions

\* ---- C29 ----

Settled == project # Idle /\ project.outcome # Pending

\* C29: when analyzeJsProject returns or throws after startDevServer has
\* returned a server, kill has been called on the process of that server,
\* once, and the process is not running, whether the analysis succeeded or
\* the pre-rendering failed.
C29_ServerStoppedOnEveryPath ==
  Settled /\ project.server # Null =>
    /\ project.kills = 1
    /\ project.process \in {"killed", "exited"}

\* until then the started process is left alone
C29_NotStoppedEarly ==
  project # Idle /\ project.outcome = Pending => project.kills = 0

\* the pre-rendering failed with the dev server running, and it was killed
C29_Witness ==
  /\ Settled
  /\ project.outcome.status = "threw"
  /\ project.server # Null
  /\ project.server.port = 5173
  /\ project.process = "killed"

\* ---- C30 ----

\* C30: the promise of normalizeWord is eventually resolved, by the timeout
\* with the stem when WordNet never calls back.
C30_PromiseEventuallyResolves == <>(lookup # Idle /\ lookup.promise # Pending)

\* what the code does provide: once WordNet has called back the promise is
\* resolved, with the lemma when the first entry has one and with the stem
\* otherwise, and the timeout changes nothing
C30_ResolvedOnCallback ==
  lookup # Idle =>
    /\ lookup.calledBack <=> lookup.promise # Pending
    /\ lookup.timer # "none" <=> lookup.calledBack
    /\ lookup.calledBack =>
         lookup.promise.value =
           IF lookup.results # Undefined /\ lookup.results # Some(<< >>)
              /\ lookup.results[1][1].lemma # << >>
           THEN lookup.results[1][1].lemma
           ELSE stemWord(lookup.word)
====
